---- MODULE Spec2Model ----
(***************************************************************************)
(* A model of the vehicle lookup bot's query resolution engine:            *)
(*   utils/text_utils.py  (transliteration, year extraction, year ranges)  *)
(*   synonyms.py          (SynonymManager, apply_synonyms)                 *)
(*   utils/cache.py       (SearchCache)                                    *)
(*   utils/search.py      (CarSearchEngine)                                *)
(*                                                                         *)
(* Text is a sequence of Unicode code points, so that lower(), the         *)
(* [а-я] test, transliteration, splitting and substring search are         *)
(* computed as the Python code computes them.  The comment next to a       *)
(* literal gives the string it spells.                                     *)
(***************************************************************************)
EXTENDS Integers, Sequences, FiniteSets, TLC

VARIABLES
    now,        \* time.time(), in whole seconds
    cache,      \* SearchCache._cache: key -> [ts, val]
    last,       \* the last call made on the engine or the cache, and what it returned
    fresh,      \* history: per query, the last freshly computed result and when it was stored
    file,       \* the synonym file on disk: [exists, mtime, content]
    heap,       \* the dict objects of the synonym manager: object id -> mapping
    synRef,     \* SynonymManager._synonyms: the id of the published dict
    lastMtime,  \* SynonymManager._last_mtime
    lock,       \* SynonymManager._lock: the holder, or "free"
    stop,       \* SynonymManager._stop
    wpc,        \* the watcher thread's position in _watch / reload_synonyms
    wloc,       \* the watcher's locals: mtime, the rows read, the dict being built
    rpc,        \* each reader's position in get_synonyms
    rsnap,      \* each reader's returned snapshot (an object id), or 0
    seen,       \* history: what the reload calls observed
    files,      \* the three data files on disk as the start-up finds them
    db,         \* the Database object: cars_df, wipers_df, types_desc_df
    boot        \* WipersBot.__init__: its position, and the df its engine was built over

vars == <<now, cache, last, fresh, file, heap, synRef, lastMtime, lock, stop,
          wpc, wloc, rpc, rsnap, seen, files, db, boot>>

cacheVars == <<now, cache, last, fresh>>
synVars == <<file, heap, synRef, lastMtime, lock, stop, wpc, wloc, rpc, rsnap, seen>>
dbVars == <<files, db, boot>>

\* Optional[int] None (extract_year); None and 0 are both falsy under "if year"
NoYear == 0

-----------------------------------------------------------------------------
(* Characters and strings                                                  *)

IsDigitCh(c) == c >= 48 /\ c <= 57
IsLatinLower(c) == c >= 97 /\ c <= 122
IsLatinUpper(c) == c >= 65 /\ c <= 90
\* the regex class [а-я]: U+0430..U+044F (ё, U+0451, is outside it)
IsCyrLowerRange(c) == c >= 1072 /\ c <= 1103
IsCyrUpper(c) == (c >= 1040 /\ c <= 1071) \/ c = 1025
IsSpaceCh(c) == c = 32 \/ c = 9 \/ c = 10

\* \w of Python's re on str: letters, digits and the underscore
IsWordCh(c) ==
    \/ IsDigitCh(c) \/ IsLatinLower(c) \/ IsLatinUpper(c)
    \/ IsCyrLowerRange(c) \/ IsCyrUpper(c) \/ c = 1105 \/ c = 95

\* str.lower() on one character
LowerCh(c) ==
    IF IsLatinUpper(c) THEN c + 32
    ELSE IF c >= 1040 /\ c <= 1071 THEN c + 32
    ELSE IF c = 1025 THEN 1105
    ELSE c

Lower(s) == [i \in 1..Len(s) |-> LowerCh(s[i])]

\* str.replace(a, b) for single characters
ReplaceCh(s, a, b) == [i \in 1..Len(s) |-> IF s[i] = a THEN b ELSE s[i]]

\* str.replace(a, '') for a single character
RemoveCh(s, a) == SelectSeq(s, LAMBDA c : c # a)

RECURSIVE LStrip(_)
LStrip(s) == IF s # <<>> /\ IsSpaceCh(s[1]) THEN LStrip(Tail(s)) ELSE s

RECURSIVE RStrip(_)
RStrip(s) ==
    IF s # <<>> /\ IsSpaceCh(s[Len(s)]) THEN RStrip(SubSeq(s, 1, Len(s) - 1)) ELSE s

\* str.strip()
Strip(s) == RStrip(LStrip(s))

\* the index of the first whitespace character of s, or Len(s) + 1
RECURSIVE WordEnd(_, _)
WordEnd(s, i) == IF i > Len(s) \/ IsSpaceCh(s[i]) THEN i ELSE WordEnd(s, i + 1)

\* str.split(): the maximal runs of non-whitespace characters
RECURSIVE Split(_)
Split(s) ==
    LET t == LStrip(s)
    IN  IF t = <<>> THEN <<>>
        ELSE LET e == WordEnd(t, 1)
             IN  <<SubSeq(t, 1, e - 1)>> \o Split(SubSeq(t, e, Len(t)))

\* s[i:].startswith(p), i counted from 1
MatchAt(s, i, p) == i + Len(p) - 1 <= Len(s) /\ SubSeq(s, i, i + Len(p) - 1) = p

\* str.startswith
StartsWith(s, p) == MatchAt(s, 1, p)

\* needle in hay (substring)
Contains(hay, needle) == \E i \in 1..(Len(hay) + 1) : MatchAt(hay, i, needle)

\* x in list
InList(x, list) == \E i \in 1..Len(list) : list[i] = x

\* str.isdigit()
IsDigitStr(s) == s # <<>> /\ \A i \in 1..Len(s) : IsDigitCh(s[i])

\* " ".join(parts)
RECURSIVE Join(_)
Join(parts) ==
    IF parts = <<>> THEN <<>>
    ELSE IF Len(parts) = 1 THEN parts[1]
    ELSE parts[1] \o <<32>> \o Join(Tail(parts))

\* the regex assertion \b at the gap before s[i] (i in 1..Len(s)+1)
WordBoundary(s, i) ==
    LET before == i > 1 /\ i - 1 <= Len(s) /\ IsWordCh(s[i - 1])
        after == i >= 1 /\ i <= Len(s) /\ IsWordCh(s[i])
    IN  before # after

\* int(s) for a string of digits
RECURSIVE DigitsValue(_, _)
DigitsValue(s, n) == IF n = 0 THEN 0 ELSE 10 * DigitsValue(s, n - 1) + (s[n] - 48)

ToInt(s) == DigitsValue(s, Len(s))

\* str(n) for n >= 0
RECURSIVE ToStr(_)
ToStr(n) == IF n < 10 THEN <<48 + n>> ELSE ToStr(n \div 10) \o <<48 + (n % 10)>>

-----------------------------------------------------------------------------
(* utils/text_utils.py                                                     *)

\* the str.maketrans table of translit_ru_to_en, one character
TranslitCh(c) ==
    CASE c = 1072 -> <<97>>              \* а -> a
      [] c = 1073 -> <<98>>              \* б -> b
      [] c = 1074 -> <<118>>             \* в -> v
      [] c = 1075 -> <<103>>             \* г -> g
      [] c = 1076 -> <<100>>             \* д -> d
      [] c = 1077 -> <<101>>             \* е -> e
      [] c = 1105 -> <<101>>             \* ё -> e
      [] c = 1078 -> <<122, 104>>        \* ж -> zh
      [] c = 1079 -> <<122>>             \* з -> z
      [] c = 1080 -> <<105>>             \* и -> i
      [] c = 1081 -> <<121>>             \* й -> y
      [] c = 1082 -> <<107>>             \* к -> k
      [] c = 1083 -> <<108>>             \* л -> l
      [] c = 1084 -> <<109>>             \* м -> m
      [] c = 1085 -> <<110>>             \* н -> n
      [] c = 1086 -> <<111>>             \* о -> o
      [] c = 1087 -> <<112>>             \* п -> p
      [] c = 1088 -> <<114>>             \* р -> r
      [] c = 1089 -> <<115>>             \* с -> s
      [] c = 1090 -> <<116>>             \* т -> t
      [] c = 1091 -> <<117>>             \* у -> u
      [] c = 1092 -> <<102>>             \* ф -> f
      [] c = 1093 -> <<104>>             \* х -> h
      [] c = 1094 -> <<116, 115>>        \* ц -> ts
      [] c = 1095 -> <<99, 104>>         \* ч -> ch
      [] c = 1096 -> <<115, 104>>        \* ш -> sh
      [] c = 1097 -> <<115, 99, 104>>    \* щ -> sch
      [] c = 1098 -> <<>>                \* ъ -> ''
      [] c = 1099 -> <<121>>             \* ы -> y
      [] c = 1100 -> <<>>                \* ь -> ''
      [] c = 1101 -> <<101>>             \* э -> e
      [] c = 1102 -> <<121, 117>>        \* ю -> yu
      [] c = 1103 -> <<121, 97>>         \* я -> ya
      [] OTHER -> <<c>>

RECURSIVE translit_ru_to_en(_)
translit_ru_to_en(text) ==
    IF text = <<>> THEN <<>>
    ELSE TranslitCh(text[1]) \o translit_ru_to_en(Tail(text))

\* re.search(r'[а-я]', s)
HasCyrLower(s) == \E i \in 1..Len(s) : IsCyrLowerRange(s[i])

\* CarSearchEngine._normalize_text and Database.normalize_text (the same body)
normalize_text(s) ==
    LET t == ReplaceCh(Lower(Strip(s)), 1105, 1077)
    IN  IF HasCyrLower(t) THEN translit_ru_to_en(t) ELSE t

\* the regex \b((19|20)\d\d)\b matches at index i
YearAt(s, i) ==
    /\ i + 3 <= Len(s)
    /\ \/ (s[i] = 49 /\ s[i + 1] = 57)
       \/ (s[i] = 50 /\ s[i + 1] = 48)
    /\ IsDigitCh(s[i + 2]) /\ IsDigitCh(s[i + 3])
    /\ WordBoundary(s, i) /\ WordBoundary(s, i + 4)

\* extract_year: the leftmost match, as an integer, or NoYear
extract_year(query) ==
    IF \E i \in 1..Len(query) : YearAt(query, i)
    THEN LET i == CHOOSE j \in 1..Len(query) :
                      YearAt(query, j) /\ \A k \in 1..(j - 1) : ~YearAt(query, k)
         IN  ToInt(SubSeq(query, i, i + 3))
    ELSE NoYear

\* re.sub(r'\b' + tok + r'\b', '', s): every non-overlapping match, left to right
RECURSIVE SubBounded(_, _, _)
SubBounded(s, tok, i) ==
    IF i > Len(s) THEN <<>>
    ELSE IF MatchAt(s, i, tok) /\ WordBoundary(s, i) /\ WordBoundary(s, i + Len(tok))
         THEN SubBounded(s, tok, i + Len(tok))
         ELSE <<s[i]>> \o SubBounded(s, tok, i + 1)

\* search(), lines 51-53: the query without its year
StripYear(query_norm, year) ==
    IF year # NoYear THEN Strip(SubBounded(query_norm, ToStr(year), 1)) ELSE query_norm

\* the regex \d{n} at index i
DigitsAt(s, i, n) == i + n - 1 <= Len(s) /\ \A k \in i..(i + n - 1) : IsDigitCh(s[k])

\* the regex (\d{2})\.(\d{2}) at index i
MMYYAt(s, i) == DigitsAt(s, i, 2) /\ MatchAt(s, i + 2, <<46>>) /\ DigitsAt(s, i + 3, 2)

\* the regex (н\.в\.|нв|now) at index i
PresentAt(s, i) ==
    \/ MatchAt(s, i, <<1085, 46, 1074, 46>>)     \* н.в.
    \/ MatchAt(s, i, <<1085, 1074>>)             \* нв
    \/ MatchAt(s, i, <<110, 111, 119>>)          \* now

\* two-digit years read in the 1900s
FullYear1900(y) == IF y < 100 THEN 1900 + y ELSE y

\* 2000 + y if y < 100 else y
FullYear(y) == IF y < 100 THEN 2000 + y ELSE y

\* year_in_range, lines 57-109, on the string line 55 has prepared
YearInPrepared(s, year) ==
    IF MMYYAt(s, 1) /\ MatchAt(s, 6, <<45>>) /\ PresentAt(s, 7)
        THEN year >= FullYear(ToInt(SubSeq(s, 4, 5)))
    ELSE IF MMYYAt(s, 1) /\ MatchAt(s, 6, <<45>>) /\ MMYYAt(s, 7)
        THEN /\ FullYear(ToInt(SubSeq(s, 4, 5))) <= year
             /\ year <= FullYear(ToInt(SubSeq(s, 10, 11)))
    ELSE IF DigitsAt(s, 1, 4) /\ MatchAt(s, 5, <<45>>) /\ PresentAt(s, 6)
        THEN year >= ToInt(SubSeq(s, 1, 4))
    ELSE IF DigitsAt(s, 1, 4) /\ MatchAt(s, 5, <<45>>) /\ DigitsAt(s, 6, 4)
        THEN ToInt(SubSeq(s, 1, 4)) <= year /\ year <= ToInt(SubSeq(s, 6, 9))
    ELSE IF MMYYAt(s, 1)
        THEN year >= FullYear(ToInt(SubSeq(s, 4, 5)))
    ELSE IF Contains(s, <<1085, 46, 1074>>) \/ Contains(s, <<110, 111, 119>>)
        THEN TRUE
    ELSE IF DigitsAt(s, 1, 4)
        THEN year = ToInt(SubSeq(s, 1, 4))
    ELSE IF MMYYAt(s, 1)
        THEN year = FullYear(ToInt(SubSeq(s, 4, 5)))
    ELSE FALSE

\* line 55: year_str.lower().replace(' ', '').replace('–', '-')
year_in_range(year_str, year) ==
    YearInPrepared(ReplaceCh(RemoveCh(Lower(year_str), 32), 8211, 45), year)

-----------------------------------------------------------------------------
(* synonyms.py: building and applying a synonym table                      *)

\* s.split(sep) for a single-character separator
RECURSIVE SplitOn(_, _)
SplitOn(s, sep) ==
    IF \E i \in 1..Len(s) : s[i] = sep
    THEN LET i == CHOOSE j \in 1..Len(s) : s[j] = sep /\ \A k \in 1..(j - 1) : s[k] # sep
         IN  <<SubSeq(s, 1, i - 1)>> \o SplitOn(SubSeq(s, i + 1, Len(s)), sep)
    ELSE <<s>>

\* dict[key] = value
DictSet(d, key, value) == [k \in DOMAIN d \cup {key} |-> IF k = key THEN value ELSE d[k]]

\* the empty dict
EmptyDict == [k \in {} |-> <<>>]

\* reload_synonyms, lines 43-44: the base and the aliases of one row
RowBase(row) == Lower(Strip(row.base))
RowSyns(row) ==
    LET pieces == SplitOn(Lower(Strip(row.synonyms)), 44)
        stripped == [i \in 1..Len(pieces) |-> Strip(pieces[i])]
    IN  SelectSeq(stripped, LAMBDA x : x # <<>>)

\* reload_synonyms, lines 45-46: for syn in syns: synonyms[syn] = base
RECURSIVE AddSyns(_, _, _)
AddSyns(d, syns, base) ==
    IF syns = <<>> THEN d ELSE AddSyns(DictSet(d, syns[1], base), Tail(syns), base)

\* a variant of the loop body without line 47, synonyms[base] = base
AddRowNoSelf(d, row) == AddSyns(d, RowSyns(row), RowBase(row))

\* reload_synonyms, lines 43-47: one iteration of the loop over the rows
AddRow(d, row) == DictSet(AddSyns(d, RowSyns(row), RowBase(row)), RowBase(row), RowBase(row))

\* reload_synonyms, lines 41-47: the dict built from all the rows
RECURSIVE BuildFrom(_, _)
BuildFrom(d, rows) == IF rows = <<>> THEN d ELSE BuildFrom(AddRow(d, rows[1]), Tail(rows))

BuildTable(rows) == BuildFrom(EmptyDict, rows)

\* synonyms.get(word, word)
DictGet(d, word) == IF word \in DOMAIN d THEN d[word] ELSE word

\* a variant of apply_synonyms that rewrites token by token first and looks the
\* whole phrase up only when no token was rewritten
apply_synonyms_words_first(parts, synonyms) ==
    IF \E i \in 1..Len(parts) : parts[i] \in DOMAIN synonyms
    THEN [i \in 1..Len(parts) |-> DictGet(synonyms, parts[i])]
    ELSE IF Lower(Join(parts)) \in DOMAIN synonyms
        THEN <<synonyms[Lower(Join(parts))]>>
    ELSE parts

apply_synonyms(parts, synonyms) ==
    LET joined == Lower(Join(parts))
    IN  IF joined \in DOMAIN synonyms
        THEN <<synonyms[joined]>>
        ELSE [i \in 1..Len(parts) |-> DictGet(synonyms, parts[i])]

-----------------------------------------------------------------------------
(* The synonym file's possible contents (rows of base, synonyms).          *)

\* base "camry", synonyms "kamri, kemri"; base "2114", synonyms "vaz 2114"
RowsA ==
    << [base |-> <<99, 97, 109, 114, 121>>,
        synonyms |-> <<107, 97, 109, 114, 105, 44, 32, 107, 101, 109, 114, 105>>],
       [base |-> <<50, 49, 49, 52>>,
        synonyms |-> <<118, 97, 122, 32, 50, 49, 49, 52>>] >>

\* base "Toyota", synonyms "toyotta"; base "rio", synonyms "rio new,"
RowsB ==
    << [base |-> <<84, 111, 121, 111, 116, 97>>,
        synonyms |-> <<116, 111, 121, 111, 116, 116, 97>>],
       [base |-> <<114, 105, 111>>,
        synonyms |-> <<114, 105, 111, 32, 110, 101, 119, 44>>] >>

-----------------------------------------------------------------------------
(* The vehicle table (Database.cars_df) the engine is built over.          *)

Cars ==
    << \* 1: Lada | 2108/2109/2114 | 2001-2013
       [brand |-> <<76, 97, 100, 97>>,
        model |-> <<50, 49, 48, 56, 47, 50, 49, 48, 57, 47, 50, 49, 49, 52>>,
        years |-> <<50, 48, 48, 49, 45, 50, 48, 49, 51>>],
       \* 2: ВАЗ | 2110, 2112 [sedan] | 1996-2014
       [brand |-> <<1042, 1040, 1047>>,
        model |-> <<50, 49, 49, 48, 44, 32, 50, 49, 49, 50, 32, 91, 115, 101, 100, 97, 110, 93>>,
        years |-> <<49, 57, 57, 54, 45, 50, 48, 49, 52>>],
       \* 3: BMW | X5 | 2010-2018
       [brand |-> <<66, 77, 87>>,
        model |-> <<88, 53>>,
        years |-> <<50, 48, 49, 48, 45, 50, 48, 49, 56>>],
       \* 4: Toyota | Camry | 05.11-н.в.
       [brand |-> <<84, 111, 121, 111, 116, 97>>,
        model |-> <<67, 97, 109, 114, 121>>,
        years |-> <<48, 53, 46, 49, 49, 45, 1085, 46, 1074, 46>>],
       \* 5: Toyota | Land Cruiser | 2006-2013
       [brand |-> <<84, 111, 121, 111, 116, 97>>,
        model |-> <<76, 97, 110, 100, 32, 67, 114, 117, 105, 115, 101, 114>>,
        years |-> <<50, 48, 48, 54, 45, 50, 48, 49, 51>>],
       \* 6: Kia | rio | 2005-2011
       [brand |-> <<75, 105, 97>>,
        model |-> <<114, 105, 111>>,
        years |-> <<50, 48, 48, 53, 45, 50, 48, 49, 49>>] >>

\* load_cars_database, lines 46-47: the normalized columns, computed at load time
brand_lower == [i \in 1..Len(Cars) |-> normalize_text(Cars[i].brand)]
model_lower == [i \in 1..Len(Cars) |-> normalize_text(Cars[i].model)]

\* self.df: the rows, by index, in table order
df == [i \in 1..Len(Cars) |-> i]

\* pd.DataFrame(): no rows
EmptyFrame == <<>>

\* DataFrame.drop_duplicates(): the first row of every group of rows equal in all columns
RECURSIVE KeepFirsts(_, _, _)
KeepFirsts(frame, i, kept) ==
    IF i > Len(frame) THEN kept
    ELSE KeepFirsts(frame, i + 1,
                    IF \E k \in 1..Len(kept) : Cars[kept[k]] = Cars[frame[i]]
                    THEN kept ELSE kept \o <<frame[i]>>)

DropDuplicates(frame) == KeepFirsts(frame, 1, <<>>)

\* an entry of debug_log: which message, and the numbers it prints
LogEntry(tag, n, m) == [tag |-> tag, n |-> n, m |-> m]

-----------------------------------------------------------------------------
(* utils/search.py: the matching strategies                                *)

\* re.sub(r'\[.*?\]', '', s): every bracketed annotation removed
RECURSIVE StripBrackets(_)
StripBrackets(s) ==
    IF \E i \in 1..Len(s) : s[i] = 91 /\ \E j \in (i + 1)..Len(s) : s[j] = 93
    THEN LET i == CHOOSE a \in 1..Len(s) : s[a] = 91 /\ \A k \in 1..(a - 1) : s[k] # 91
             j == CHOOSE b \in (i + 1)..Len(s) :
                      s[b] = 93 /\ \A k \in (i + 1)..(b - 1) : s[k] # 93
         IN  SubSeq(s, 1, i - 1) \o StripBrackets(SubSeq(s, j + 1, Len(s)))
    ELSE s

\* a variant of vaz_match that looks for the number anywhere in the field
vaz_match_substring(vaz_model, model_field) == Contains(Lower(model_field), Lower(vaz_model))

\* _search_vaz_model.vaz_match
vaz_match(vaz_model, model_field) ==
    LET a == StripBrackets(model_field)
        b == ReplaceCh(ReplaceCh(a, 47, 32), 44, 32)
        models == Split(Lower(b))
    IN  InList(Lower(vaz_model), models)

\* the year filter of lines 94 and 156
FilterByYear(frame, year) ==
    SelectSeq(frame, LAMBDA r : year_in_range(Cars[r].years, year))

\* _search_vaz_model, line 161: the substring fallback on the raw model field
VazSimilar(vaz_model) == SelectSeq(df, LAMBDA r : Contains(Cars[r].model, vaz_model))

\* _search_vaz_model, lines 159-165, given the matches the year filter left
VazOutcome(vaz_model, year, found, vaz_matches, similar) ==
    [matches |-> vaz_matches, similar |-> similar, fallback |-> "vaz model+year",
     log |-> <<LogEntry("vaz", 0, 0), LogEntry("vaz found", found, 0)>>
             \o (IF year # NoYear
                 THEN <<LogEntry("vaz year", year, Len(vaz_matches))>> ELSE <<>>)
             \o (IF vaz_matches = <<>> /\ similar # <<>>
                 THEN <<LogEntry("vaz similar", Len(similar), 0)>> ELSE <<>>)]

\* _search_vaz_model, lines 155-161, given the rows vaz_match selects
VazFiltered(vaz_model, year, found, vaz_matches) ==
    VazOutcome(vaz_model, year, Len(found), vaz_matches,
               IF vaz_matches = <<>> THEN VazSimilar(vaz_model) ELSE EmptyFrame)

VazFound(vaz_model, year, found) ==
    VazFiltered(vaz_model, year, found,
                IF year # NoYear THEN FilterByYear(found, year) ELSE found)

_search_vaz_model(vaz_model, year) ==
    VazFound(vaz_model, year, SelectSeq(df, LAMBDA r : vaz_match(vaz_model, Cars[r].model)))

\* re.match(r"^[ix]?\d+[a-z]*$", s)
RECURSIVE AllLatinLower(_)
AllLatinLower(s) == s = <<>> \/ (IsLatinLower(s[1]) /\ AllLatinLower(Tail(s)))

RECURSIVE DigitsThenLetters(_)
DigitsThenLetters(s) ==
    /\ s # <<>>
    /\ IsDigitCh(s[1])
    /\ (AllLatinLower(Tail(s)) \/ DigitsThenLetters(Tail(s)))

ModelNumberPattern(s) ==
    \/ DigitsThenLetters(s)
    \/ (s # <<>> /\ s[1] \in {105, 120} /\ DigitsThenLetters(Tail(s)))

\* a variant of lines 183-189 that selects no row
StrictRowNever(r, brand, model_part) == FALSE

\* _search_brand_model, lines 183-189
StrictRow(r, brand, model_part) ==
    /\ brand_lower[r] = brand
    /\ \/ StartsWith(model_lower[r], model_part)
       \/ (StartsWith(model_lower[r], model_part)
           /\ WordBoundary(model_lower[r], Len(model_part) + 1))

\* a variant of row_match satisfied by any one of the words
row_match_any(r, parts_syn) ==
    \E i \in 1..Len(parts_syn) : Contains(brand_lower[r] \o <<32>> \o model_lower[r], parts_syn[i])

\* row_match of _search_brand_model and _search_multiple_words
row_match(r, parts_syn) ==
    LET full == brand_lower[r] \o <<32>> \o model_lower[r]
    IN  \A i \in 1..Len(parts_syn) : Contains(full, parts_syn[i])

_search_brand_model(parts_syn) ==
    LET brand == parts_syn[1]
        model_part == parts_syn[2]
        tryStrict == IsDigitStr(model_part) \/ ModelNumberPattern(model_part)
        m_strict == SelectSeq(df, LAMBDA r : StrictRow(r, brand, model_part))
        m1 == SelectSeq(df, LAMBDA r : row_match(r, parts_syn))
    IN  IF tryStrict /\ m_strict # <<>>
        THEN [matches |-> m_strict, fallback |-> "brand+model startswith",
              log |-> <<LogEntry("step 1a", Len(m_strict), 0)>>]
        ELSE [matches |-> m1,
              fallback |-> IF m1 # <<>> THEN "all words in brand+model" ELSE "",
              log |-> (IF tryStrict THEN <<LogEntry("step 1a", 0, 0)>> ELSE <<>>)
                      \o <<LogEntry("step 1", Len(m1), 0)>>]

_search_multiple_words(parts_syn) ==
    LET m1 == SelectSeq(df, LAMBDA r : row_match(r, parts_syn))
    IN  [matches |-> m1,
         fallback |-> IF m1 # <<>> THEN "all words in brand+model" ELSE "",
         log |-> <<LogEntry("step 1", Len(m1), 0)>>]

\* a variant of line 255 with the two strings exchanged
BrandFuzzyReversed(r, word) == Contains(word, brand_lower[r])

\* _search_single_word, line 255: brand_lower contains the word
BrandFuzzyRow(r, word) == Contains(brand_lower[r], word)

\* a variant of _search_single_word that tries its stages in the reverse order
_search_single_word_reversed(word) ==
    LET m_brand == SelectSeq(df, LAMBDA r : brand_lower[r] = word)
        m_model_total == DropDuplicates(SelectSeq(df, LAMBDA r : model_lower[r] = word)
                                        \o SelectSeq(df, LAMBDA r : Contains(model_lower[r], word)))
        m_brand_fuzzy == SelectSeq(df, LAMBDA r : BrandFuzzyRow(r, word))
        m2 == SelectSeq(df, LAMBDA r : InList(word, Split(model_lower[r])))
        m_model_contains2 == SelectSeq(df, LAMBDA r : Contains(model_lower[r], word))
    IN  IF m_model_contains2 # <<>>
            THEN [matches |-> m_model_contains2, fallback |-> "model contains (fallback)"]
        ELSE IF m2 # <<>> THEN [matches |-> m2, fallback |-> "model word"]
        ELSE IF m_brand_fuzzy # <<>>
            THEN [matches |-> m_brand_fuzzy, fallback |-> "brand contains (fallback)"]
        ELSE IF m_model_total # <<>>
            THEN [matches |-> m_model_total, fallback |-> "model contains all"]
        ELSE IF m_brand # <<>> THEN [matches |-> m_brand, fallback |-> "brand=="]
        ELSE [matches |-> EmptyFrame, fallback |-> ""]

_search_single_word(word) ==
    LET m_brand == SelectSeq(df, LAMBDA r : brand_lower[r] = word)
        m_model == SelectSeq(df, LAMBDA r : model_lower[r] = word)
        m_model_contains == SelectSeq(df, LAMBDA r : Contains(model_lower[r], word))
        m_model_total == DropDuplicates(m_model \o m_model_contains)
        m_brand_fuzzy == SelectSeq(df, LAMBDA r : BrandFuzzyRow(r, word))
        m2 == SelectSeq(df, LAMBDA r : InList(word, Split(model_lower[r])))
        m_model_contains2 == SelectSeq(df, LAMBDA r : Contains(model_lower[r], word))
    IN  IF m_brand # <<>> THEN [matches |-> m_brand, fallback |-> "brand=="]
        ELSE IF m_model_total # <<>>
            THEN [matches |-> m_model_total, fallback |-> "model contains all"]
        ELSE IF m_brand_fuzzy # <<>>
            THEN [matches |-> m_brand_fuzzy, fallback |-> "brand contains (fallback)"]
        ELSE IF m2 # <<>> THEN [matches |-> m2, fallback |-> "model word"]
        ELSE IF m_model_contains2 # <<>>
            THEN [matches |-> m_model_contains2, fallback |-> "model contains (fallback)"]
        ELSE [matches |-> EmptyFrame, fallback |-> ""]

\* a variant of line 283: the word anywhere in the raw model field
SimilarRowSubstring(r, word) == Contains(Cars[r].model, word)

\* _search_similar_by_year_word, lines 282-284
SimilarRow(r, word) ==
    InList(word, Split(ReplaceCh(ReplaceCh(Cars[r].model, 47, 32), 44, 32)))

_search_similar_by_year_word(word) == SelectSeq(df, LAMBDA r : SimilarRow(r, word))

-----------------------------------------------------------------------------
(* utils/search.py: CarSearchEngine.search, lines 45-108 (a cache miss)    *)

\* a variant of line 64 without the test of the token's length
DispatchAnyDigits(parts_syn) ==
    IF Len(parts_syn) = 1 /\ IsDigitStr(parts_syn[1]) THEN "vaz"
    ELSE IF Len(parts_syn) = 2 THEN "brand_model"
    ELSE IF Len(parts_syn) >= 3 THEN "multiple_words"
    ELSE IF Len(parts_syn) = 1 /\ Len(parts_syn[1]) > 1 THEN "single_word"
    ELSE ""

\* lines 64-86: which strategy the shape of parts_syn selects ("" for none)
Dispatch(parts_syn) ==
    IF Len(parts_syn) = 1 /\ IsDigitStr(parts_syn[1]) /\ Len(parts_syn[1]) \in {3, 4}
        THEN "vaz"
    ELSE IF Len(parts_syn) = 2 THEN "brand_model"
    ELSE IF Len(parts_syn) >= 3 THEN "multiple_words"
    ELSE IF Len(parts_syn) = 1 /\ Len(parts_syn[1]) > 1 THEN "single_word"
    ELSE ""

\* lines 66-68: what the numeric-model strategy leaves in matches, similar, fallback_tried
AfterVaz(r) ==
    [matches |-> r.matches, similar |-> r.similar, log |-> r.log,
     fallbacks |-> IF r.matches # <<>> \/ r.similar # <<>> THEN <<r.fallback>> ELSE <<>>,
     ran |-> <<"vaz">>]

\* lines 72-74, 78-80, 84-86: the same for the other strategies
AfterStrategy(r, name, log) ==
    [matches |-> r.matches, similar |-> EmptyFrame, log |-> log,
     fallbacks |-> IF r.matches # <<>> THEN <<r.fallback>> ELSE <<>>,
     ran |-> <<name>>]

\* lines 60-62: no strategy applies
NoStrategy ==
    [matches |-> EmptyFrame, similar |-> EmptyFrame, log |-> <<>>,
     fallbacks |-> <<>>, ran |-> <<>>]

BrandModelOutcome(r) == AfterStrategy(r, "brand_model", r.log)
MultipleWordsOutcome(r) == AfterStrategy(r, "multiple_words", r.log)

\* lines 60-86: the one strategy call the shape of parts_syn selects
RunSelected(which, parts_syn, year) ==
    IF which = "vaz" THEN AfterVaz(_search_vaz_model(parts_syn[1], year))
    ELSE IF which = "brand_model" THEN BrandModelOutcome(_search_brand_model(parts_syn))
    ELSE IF which = "multiple_words"
        THEN MultipleWordsOutcome(_search_multiple_words(parts_syn))
    ELSE IF which = "single_word"
        THEN AfterStrategy(_search_single_word(parts_syn[1]), "single_word", <<>>)
    ELSE NoStrategy

RunStrategy(parts_syn, year) == RunSelected(Dispatch(parts_syn), parts_syn, year)

\* a variant of line 89 without the test matches.empty
WantsSimilarWithMatches(matches, year, parts_syn) == year # NoYear /\ Len(parts_syn) >= 1

\* lines 88-90: whether the similar fallback by year and word is computed
WantsSimilar(matches, year, parts_syn) ==
    matches = <<>> /\ year # NoYear /\ Len(parts_syn) >= 1

\* a variant of lines 92-96 in which the final year filter is never applied
YearFilterSkipped(matches, year) == FALSE

\* lines 92-96: whether the final year filter is applied
WantsYearFilter(matches, year) == matches # <<>> /\ year # NoYear

\* lines 98-108: the result, with what the call went through: the year, parts_syn,
\* the strategies called and the matches before the final filter
Assemble(query_norm, year, query_wo_year, parts_syn, st, sim, flt, similar, matches) ==
    [result |->
        [matches |-> matches,
         similar |-> similar,
         log |-> <<LogEntry("query", Len(query_norm), 0),
                   LogEntry("year", year, Len(query_wo_year)),
                   LogEntry("synonyms", Len(parts_syn), 0)>>
                 \o st.log
                 \o (IF sim /\ similar # <<>>
                     THEN <<LogEntry("similar", Len(similar), 0)>> ELSE <<>>)
                 \o (IF flt THEN <<LogEntry("final year", Len(matches), Len(st.matches))>>
                     ELSE <<>>),
         fallbacks |-> st.fallbacks],
     year |-> year,
     parts_syn |-> parts_syn,
     ran |-> st.ran,
     pre |-> st.matches]

\* lines 88-96, given the outcome of the strategy call
Decide(query_norm, year, query_wo_year, parts_syn, st, sim, flt) ==
    Assemble(query_norm, year, query_wo_year, parts_syn, st, sim, flt,
             IF sim THEN _search_similar_by_year_word(parts_syn[1]) ELSE st.similar,
             IF flt THEN FilterByYear(st.matches, year) ELSE st.matches)

AfterDispatch(query_norm, year, query_wo_year, parts_syn, st) ==
    Decide(query_norm, year, query_wo_year, parts_syn, st,
           WantsSimilar(st.matches, year, parts_syn), WantsYearFilter(st.matches, year))

\* lines 56-86, given the query without its year
SearchParts(query_norm, year, query_wo_year, parts_syn) ==
    AfterDispatch(query_norm, year, query_wo_year, parts_syn, RunStrategy(parts_syn, year))

SearchWithoutYear(query_norm, year, query_wo_year, synonyms) ==
    SearchParts(query_norm, year, query_wo_year,
                apply_synonyms(Split(query_wo_year), synonyms))

\* lines 50-53, given the normalized query
SearchNormalized(query_norm, year, synonyms) ==
    SearchWithoutYear(query_norm, year, StripYear(query_norm, year), synonyms)

\* lines 45-108: search() on a cache miss
SearchYear(query_norm, synonyms) ==
    SearchNormalized(query_norm, extract_year(query_norm), synonyms)

Compute(query, synonyms) == SearchYear(normalize_text(query), synonyms)

-----------------------------------------------------------------------------
(* utils/cache.py: SearchCache                                             *)

\* SearchCache._expiry_time (Config.CACHE_EXPIRY), in seconds, scaled down
TTL == 2

\* the clock is followed up to MaxTime
MaxTime == 3

\* variants of the comparison of line 36: an entry of age TTL still counts as
\* fresh; an entry stops being fresh a second early
IsFreshInclusive(ts, t) == t - ts <= TTL
IsFreshShort(ts, t) == t - ts < TTL - 1

\* get, line 36: time.time() - timestamp < self._expiry_time
IsFreshAt(ts, t) == t - ts < TTL

\* a variant of the comparison of line 71: an entry of age TTL is not yet expired
IsExpiredStrict(ts, t) == t - ts > TTL

\* clear_expired, line 71: current_time - timestamp >= self._expiry_time
IsExpiredAt(ts, t) == t - ts >= TTL

\* del self._cache[key]
DictDel(d, key) == [k \in DOMAIN d \ {key} |-> d[k]]

\* a variant of get that finds an entry whatever the letter case of its key
CacheGetRetAnyCase(c, key, t) ==
    IF \E k \in DOMAIN c : Lower(k) = Lower(key) /\ IsFreshAt(c[k].ts, t)
        THEN <<c[CHOOSE k \in DOMAIN c : Lower(k) = Lower(key) /\ IsFreshAt(c[k].ts, t)].val>>
        ELSE <<>>

\* get, lines 34-43: the value returned, <<v>> for a value and <<>> for None
CacheGetRet(c, key, t) ==
    IF key \in DOMAIN c /\ IsFreshAt(c[key].ts, t) THEN <<c[key].val>> ELSE <<>>

\* a variant of get without the test of line 34: whatever is not a fresh entry
\* is deleted
GetDeletesUnchecked(c, key, t) == ~(key \in DOMAIN c /\ IsFreshAt(c[key].ts, t))

\* get, lines 34-40: the key is in the dict and its entry is not fresh, so line
\* 40 deletes it
GetDeletes(c, key, t) == key \in DOMAIN c /\ ~IsFreshAt(c[key].ts, t)

\* del self._cache[key] raises KeyError for a key that is not in the dict
DelRaises(c, key) == key \notin DOMAIN c

\* get, line 40, raises
GetRaises(c, key, t) == GetDeletes(c, key, t) /\ DelRaises(c, key)

\* get, lines 34-43: the cache after the call
CacheAfterGet(c, key, t) == IF GetDeletes(c, key, t) THEN DictDel(c, key) ELSE c

\* a variant of set that keeps the entry a key already has
CacheSetIfAbsent(c, key, value, t) ==
    IF key \in DOMAIN c THEN c ELSE DictSet(c, key, [ts |-> t, val |-> value])

\* set, line 53
CacheAfterSet(c, key, value, t) == DictSet(c, key, [ts |-> t, val |-> value])

\* clear_expired, lines 68-75
ExpiredKeys(c, t) == {k \in DOMAIN c : IsExpiredAt(c[k].ts, t)}
CacheAfterClearExpired(c, t) == [k \in DOMAIN c \ ExpiredKeys(c, t) |-> c[k]]

\* clear_expired, lines 74-75, raises: one of the keys collected at lines 69-72
\* is not in the dict when it is deleted
ClearExpiredRaises(c, t) == \E k \in ExpiredKeys(c, t) : DelRaises(c, k)

-----------------------------------------------------------------------------
(* The record of the last call: the operation, its key, the value passed   *)
(* (arg) and returned (ret), both <<v>> or <<>>, and for a search what     *)
(* the call went through.                                                  *)

CallRecord(op, key, arg, ret, n) ==
    [op |-> op, key |-> key, arg |-> arg, ret |-> ret, n |-> n, hit |-> FALSE,
     year |-> NoYear, parts_syn |-> <<>>, ran |-> <<>>, pre |-> <<>>]

NoCall == CallRecord("none", <<>>, <<>>, <<>>, 0)

NoHistory(keys) == [k \in keys |-> <<>>]

\* what is remembered of the last store under a key: when, the value, and the
\* value the cache c held under the key before
StoreRecord(t, value, c, key) ==
    [t |-> t, r |-> value, prev |-> IF key \in DOMAIN c THEN <<c[key].val>> ELSE <<>>]

-----------------------------------------------------------------------------
(* database.py: Database, and the start-up of main.py that constructs it    *)

\* validate_database: required_columns
RequiredColumns == {"brand", "model", "years", "mount", "driver", "passanger"}

\* validate_database(df), on the columns of the sheet
validate_database(columns) == RequiredColumns \subseteq columns

\* __init__, lines 17-19: the three frames are None
NoneDb == [cars_df |-> "None", wipers_df |-> "None", types_desc_df |-> "None"]

\* load_cars_database: read_excel raises on an unreadable file, a failed
\* validation raises ValueError; either way the error is logged and raised again
load_cars_database(d, f) ==
    IF f.cars.readable /\ validate_database(f.cars.columns)
        THEN [raised |-> FALSE, db |-> [d EXCEPT !.cars_df = "DataFrame"]]
        ELSE [raised |-> TRUE, db |-> d]

\* load_wipers_catalog
load_wipers_catalog(d, f) ==
    IF f.wipers.readable
        THEN [raised |-> FALSE, db |-> [d EXCEPT !.wipers_df = "DataFrame"]]
        ELSE [raised |-> TRUE, db |-> d]

\* load_types_desc
load_types_desc(d, f) ==
    IF f.types.readable
        THEN [raised |-> FALSE, db |-> [d EXCEPT !.types_desc_df = "DataFrame"]]
        ELSE [raised |-> TRUE, db |-> d]

\* load_all, lines 30-32: the three loads in order, up to the first that raises
LoadInOrder(d, f) ==
    IF load_cars_database(d, f).raised THEN load_cars_database(d, f)
    ELSE IF load_wipers_catalog(load_cars_database(d, f).db, f).raised
        THEN load_wipers_catalog(load_cars_database(d, f).db, f)
    ELSE load_types_desc(load_wipers_catalog(load_cars_database(d, f).db, f).db, f)

\* load_all: the except clause catches whatever a load raised, logs it and
\* returns False
load_all(d, f) ==
    [raised |-> FALSE, ret |-> ~LoadInOrder(d, f).raised, db |-> LoadInOrder(d, f).db]

\* Database.__init__: load_all's return value is dropped
DatabaseInit(f) == [raised |-> load_all(NoneDb, f).raised, db |-> load_all(NoneDb, f).db]

\* the data files a start-up can find: the vehicle sheet unreadable or readable
\* with any set of the required columns, the two other sheets readable or not
SheetStates == {[readable |-> r] : r \in BOOLEAN}

CarsSheetStates ==
    {[readable |-> FALSE, columns |-> {}]}
    \cup {[readable |-> TRUE, columns |-> c] : c \in SUBSET RequiredColumns}

DataFiles == [cars : CarsSheetStates, wipers : SheetStates, types : SheetStates]

GoodFiles ==
    [cars |-> [readable |-> TRUE, columns |-> RequiredColumns],
     wipers |-> [readable |-> TRUE], types |-> [readable |-> TRUE]]

\* main.py:38, self.db = Database()
B_Database ==
    /\ boot.pc = "start"
    /\ db' = DatabaseInit(files).db
    /\ boot' = [boot EXCEPT !.pc = IF DatabaseInit(files).raised THEN "failed" ELSE "db"]
    /\ UNCHANGED <<cacheVars, synVars, files>>

\* main.py:43, MessageHandler(self.db, ...): CarSearchEngine(database.cars_df)
B_MessageHandler ==
    /\ boot.pc = "db"
    /\ boot' = [pc |-> "handlers", engine_df |-> db.cars_df]
    /\ UNCHANGED <<cacheVars, synVars, files, db>>

\* the start-up as the other specifications hold it: done, over good files
DbQuiet ==
    /\ files = GoodFiles
    /\ db = DatabaseInit(GoodFiles).db
    /\ boot = [pc |-> "handlers", engine_df |-> "DataFrame"]

-----------------------------------------------------------------------------
(* synonyms.py: SynonymManager.  Dicts are objects on a heap, named by     *)
(* ids, so that sharing a dict and copying it are different things.        *)
(* The watcher thread runs _watch; readers call get_synonyms; the file     *)
(* is written, replaced by an unreadable one, or deleted from outside.     *)

\* the file's modification time is followed up to MaxMtime
MaxMtime == 2

Readers == {"r1"}

\* what the file may hold: 0 for a file read_csv or the row loop fails on
Contents == {0, 1, 2}
RowsOf(content) == IF content = 1 THEN RowsA ELSE RowsB
Parseable(content) == content # 0

NoLocals == [mtime |-> 0, rows |-> <<>>, dict |-> 0]

\* what is remembered of the last call of reload_synonyms that has returned: the
\* modification time it saw (0 if it saw none) and whether it returned at line 38
CallSeen(mtime, unchanged) == [prev |-> mtime, noop |-> unchanged]
NoSnapshot == [id |-> 0, got |-> EmptyDict, mutated |-> FALSE]

\* the ids some reference holds
Referenced(ref, loc, snaps) ==
    ({ref, loc.dict} \cup {snaps[r].id : r \in DOMAIN snaps}) \ {0}

\* allocation: an id no live object has
NewId(ref, loc, snaps) ==
    CHOOSE i \in 1..(Cardinality(Readers) + 3) :
        /\ i \notin Referenced(ref, loc, snaps)
        /\ \A j \in 1..(i - 1) : j \in Referenced(ref, loc, snaps)

\* reference counting: an object no reference holds is freed
Collect(h, ref, loc, snaps) == [i \in Referenced(ref, loc, snaps) |-> h[i]]

\* a variant of line 41 that empties and refills the published dict in place
FreshDictInPlace(published, new) == published

\* reload_synonyms, line 41: synonyms = {} is a new dict, not the published one
FreshDictId(published, new) == new

\* get_synonyms, line 63: dict(self._synonyms) is a new dict, not the published one
SnapshotId(published, new) == new

\* a variant of line 38 with the comparison the wrong way
MtimeOlder(last_mtime, mtime) == mtime < last_mtime

\* a variant of line 50 that records the modification time the file has when the
\* table is published
MtimeAtSwap(mtime, current) == current

\* reload_synonyms, line 50: self._last_mtime = mtime, the time read at line 37
\* before the contents were read
RecordedMtime(mtime, current) == mtime

\* reload_synonyms, line 38: if self._last_mtime == mtime: return
MtimeUnchanged(last_mtime, mtime) == last_mtime = mtime

\* a variant of lines 52-53 in which the exception leaves reload_synonyms and
\* ends the watcher thread
ReloadErrorEscapes == "done"

\* reload_synonyms, lines 52-53: the exception is logged and the call returns
\* to _watch, which sleeps and loops
OnReloadError == "sleep"

\* a variant of line 67 that does not look at self._stop
W_LoopForever ==
    /\ wpc = "sleep"
    /\ wpc' = "exists"
    /\ UNCHANGED <<cacheVars, dbVars, file, heap, synRef, lastMtime, lock, stop, wloc, rpc, rsnap, seen>>

\* _watch, line 67: while not self._stop
W_Loop ==
    /\ wpc = "sleep"
    /\ wpc' = IF stop THEN "done" ELSE "exists"
    /\ UNCHANGED <<cacheVars, dbVars, file, heap, synRef, lastMtime, lock, stop, wloc, rpc, rsnap, seen>>

\* reload_synonyms, line 36: if os.path.exists(self.filepath)
W_Exists ==
    /\ wpc = "exists"
    /\ wpc' = IF file.exists THEN "getmtime" ELSE "sleep"
    /\ seen' = IF file.exists THEN seen ELSE CallSeen(0, FALSE)
    /\ UNCHANGED <<cacheVars, dbVars, file, heap, synRef, lastMtime, lock, stop, wloc, rpc, rsnap>>

\* line 37: mtime = os.path.getmtime(...); it raises if the file is gone by now
W_GetMtime ==
    /\ wpc = "getmtime"
    /\ IF file.exists
       THEN /\ wloc' = [wloc EXCEPT !.mtime = file.mtime]
            /\ wpc' = "compare"
            /\ seen' = seen
       ELSE /\ wloc' = NoLocals
            /\ wpc' = OnReloadError
            /\ seen' = CallSeen(0, FALSE)
    /\ UNCHANGED <<cacheVars, dbVars, file, heap, synRef, lastMtime, lock, stop, rpc, rsnap>>

\* line 38
W_Compare ==
    /\ wpc = "compare"
    /\ IF MtimeUnchanged(lastMtime, wloc.mtime)
       THEN /\ wpc' = "sleep"
            /\ wloc' = NoLocals
            /\ seen' = CallSeen(wloc.mtime, TRUE)
       ELSE /\ wpc' = "read"
            /\ wloc' = wloc
            /\ seen' = seen
    /\ UNCHANGED <<cacheVars, dbVars, file, heap, synRef, lastMtime, lock, stop, rpc, rsnap>>

\* lines 40-41: df = pd.read_csv(...); synonyms = {}.  A missing or unreadable
\* file raises, and the except clause of line 52 ends the call.
W_Read ==
    /\ wpc = "read"
    /\ IF file.exists /\ Parseable(file.content)
       THEN LET id == FreshDictId(synRef, NewId(synRef, wloc, rsnap))
            IN  /\ wloc' = [wloc EXCEPT !.rows = RowsOf(file.content), !.dict = id]
                /\ heap' = [i \in DOMAIN heap \cup {id} |->
                                IF i = id THEN EmptyDict ELSE heap[i]]
                /\ wpc' = "build"
                /\ seen' = seen
       ELSE /\ wloc' = NoLocals
            /\ heap' = heap
            /\ wpc' = OnReloadError
            /\ seen' = CallSeen(wloc.mtime, FALSE)
    /\ UNCHANGED <<cacheVars, dbVars, file, synRef, lastMtime, lock, stop, rpc, rsnap>>

\* lines 42-47: one iteration of the loop over the rows
W_Row ==
    /\ wpc = "build"
    /\ wloc.rows # <<>>
    /\ heap' = [heap EXCEPT ![wloc.dict] = AddRow(heap[wloc.dict], wloc.rows[1])]
    /\ wloc' = [wloc EXCEPT !.rows = Tail(wloc.rows)]
    /\ UNCHANGED <<cacheVars, dbVars, file, synRef, lastMtime, lock, stop, wpc, rpc, rsnap, seen>>

\* line 48: with self._lock
W_Acquire ==
    /\ wpc = "build"
    /\ wloc.rows = <<>>
    /\ lock = "free"
    /\ lock' = "w"
    /\ wpc' = "swap_syn"
    /\ UNCHANGED <<cacheVars, dbVars, file, heap, synRef, lastMtime, stop, wloc, rpc, rsnap, seen>>

\* line 49: self._synonyms = synonyms
W_SwapSyn ==
    /\ wpc = "swap_syn"
    /\ synRef' = wloc.dict
    /\ wloc' = [wloc EXCEPT !.dict = 0]
    /\ heap' = Collect(heap, synRef', wloc', rsnap)
    /\ wpc' = "swap_mtime"
    /\ UNCHANGED <<cacheVars, dbVars, file, lastMtime, lock, stop, rpc, rsnap, seen>>

\* line 50: self._last_mtime = mtime
W_SwapMtime ==
    /\ wpc = "swap_mtime"
    /\ lastMtime' = RecordedMtime(wloc.mtime, file.mtime)
    /\ wpc' = "release"
    /\ UNCHANGED <<cacheVars, dbVars, file, heap, synRef, lock, stop, wloc, rpc, rsnap, seen>>

\* the end of the with block, and of the call
W_Release ==
    /\ wpc = "release"
    /\ lock' = "free"
    /\ wpc' = "sleep"
    /\ seen' = CallSeen(wloc.mtime, FALSE)
    /\ wloc' = NoLocals
    /\ UNCHANGED <<cacheVars, dbVars, file, heap, synRef, lastMtime, stop, rpc, rsnap>>

\* a caller enters get_synonyms, dropping the snapshot it held
R_Call(r) ==
    /\ rpc[r] \in {"idle", "have"}
    /\ rpc' = [rpc EXCEPT ![r] = "acquire"]
    /\ rsnap' = [rsnap EXCEPT ![r] = NoSnapshot]
    /\ heap' = Collect(heap, synRef, wloc, rsnap')
    /\ UNCHANGED <<cacheVars, dbVars, file, synRef, lastMtime, lock, stop, wpc, wloc, seen>>

\* get_synonyms, line 62: with self._lock
R_Acquire(r) ==
    /\ rpc[r] = "acquire"
    /\ lock = "free"
    /\ lock' = r
    /\ rpc' = [rpc EXCEPT ![r] = "copy"]
    /\ UNCHANGED <<cacheVars, dbVars, file, heap, synRef, lastMtime, stop, wpc, wloc, rsnap, seen>>

\* line 63: dict(self._synonyms)
R_Copy(r) ==
    /\ rpc[r] = "copy"
    /\ LET id == SnapshotId(synRef, NewId(synRef, wloc, rsnap))
       IN  /\ rsnap' = [rsnap EXCEPT ![r] =
                            [id |-> id, got |-> heap[synRef], mutated |-> FALSE]]
           /\ heap' = [i \in DOMAIN heap \cup {id} |->
                           IF i = id THEN heap[synRef] ELSE heap[i]]
    /\ rpc' = [rpc EXCEPT ![r] = "release"]
    /\ UNCHANGED <<cacheVars, dbVars, file, synRef, lastMtime, lock, stop, wpc, wloc, seen>>

\* the end of the with block: the snapshot is returned
R_Return(r) ==
    /\ rpc[r] = "release"
    /\ lock' = "free"
    /\ rpc' = [rpc EXCEPT ![r] = "have"]
    /\ UNCHANGED <<cacheVars, dbVars, file, heap, synRef, lastMtime, stop, wpc, wloc, rsnap, seen>>

\* what a caller may do to its own dict: here, d["x"] = "y"
CallerEdit(d) == DictSet(d, <<120>>, <<121>>)

R_Mutate(r) ==
    /\ rpc[r] = "have"
    /\ ~rsnap[r].mutated
    /\ heap' = [heap EXCEPT ![rsnap[r].id] = CallerEdit(heap[rsnap[r].id])]
    /\ rsnap' = [rsnap EXCEPT ![r].mutated = TRUE]
    /\ UNCHANGED <<cacheVars, dbVars, file, synRef, lastMtime, lock, stop, wpc, wloc, rpc, seen>>

\* the file is written from outside: new content, a later modification time
FileWrite(c) ==
    /\ file.mtime < MaxMtime
    /\ file' = [exists |-> TRUE, mtime |-> file.mtime + 1, content |-> c]
    /\ UNCHANGED <<cacheVars, dbVars, heap, synRef, lastMtime, lock, stop, wpc, wloc, rpc, rsnap, seen>>

FileDelete ==
    /\ file.exists
    /\ file' = [file EXCEPT !.exists = FALSE]
    /\ UNCHANGED <<cacheVars, dbVars, heap, synRef, lastMtime, lock, stop, wpc, wloc, rpc, rsnap, seen>>

\* stop(), line 73
Stop ==
    /\ ~stop
    /\ stop' = TRUE
    /\ UNCHANGED <<cacheVars, dbVars, file, heap, synRef, lastMtime, lock, wpc, wloc, rpc, rsnap, seen>>

\* __init__, lines 24-31: the state once the constructor's own reload_synonyms()
\* has returned and the watcher thread is started, for a file f found at startup
SynAfterInit(f) ==
    LET loaded == f.exists /\ Parseable(f.content)
    IN  /\ file = f
        /\ heap = [i \in {1} |-> IF loaded THEN BuildTable(RowsOf(f.content)) ELSE EmptyDict]
        /\ synRef = 1
        /\ lastMtime = IF loaded THEN f.mtime ELSE 0
        /\ lock = "free"
        /\ stop = FALSE
        /\ wpc = "sleep"
        /\ wloc = NoLocals
        /\ rpc = [r \in Readers |-> "idle"]
        /\ rsnap = [r \in Readers |-> NoSnapshot]
        /\ seen = CallSeen(IF f.exists THEN f.mtime ELSE 0, FALSE)

StartFiles ==
    {[exists |-> FALSE, mtime |-> 0, content |-> 0]}
    \cup {[exists |-> TRUE, mtime |-> 1, content |-> c] : c \in Contents}

\* the cache and the clock as the manager's specification holds them: untouched
CacheQuiet == now = 0 /\ cache = EmptyDict /\ last = NoCall /\ fresh = NoHistory({})

SynInit == CacheQuiet /\ DbQuiet /\ \E f \in StartFiles : SynAfterInit(f)

\* the manager as the other specifications hold it: no file, the empty table
SynQuiet == SynAfterInit([exists |-> FALSE, mtime |-> 0, content |-> 0])

SynNext ==
    \/ W_Loop \/ W_Exists \/ W_GetMtime \/ W_Compare \/ W_Read \/ W_Row
    \/ W_Acquire \/ W_SwapSyn \/ W_SwapMtime \/ W_Release
    \/ \E r \in Readers : R_Call(r) \/ R_Acquire(r) \/ R_Copy(r) \/ R_Return(r) \/ R_Mutate(r)
    \/ \E c \in Contents : FileWrite(c)
    \/ FileDelete
    \/ Stop

\* SynonymManager: the watcher, the callers of get_synonyms and the file
SpecSyn == SynInit /\ [][SynNext]_vars

\* the steps of the watcher thread that wait for nothing and read no row
W_Step ==
    \/ W_Loop \/ W_Exists \/ W_GetMtime \/ W_Compare \/ W_Read
    \/ W_SwapSyn \/ W_SwapMtime \/ W_Release

\* the steps of W_Row, told by what they do to the locals of the watcher
W_RowTaken ==
    /\ wpc = "build"
    /\ wloc.rows # <<>>
    /\ wloc' = [wloc EXCEPT !.rows = Tail(wloc.rows)]

SynLiveInit == SynInit

\* the steps of SynNext but for the callers' edits of their own copies, which
\* neither the watcher nor the published table sees
SynLiveNext ==
    \/ W_Loop \/ W_Exists \/ W_GetMtime \/ W_Compare \/ W_Read \/ W_Row
    \/ W_Acquire \/ W_SwapSyn \/ W_SwapMtime \/ W_Release
    \/ \E r \in Readers : R_Call(r) \/ R_Acquire(r) \/ R_Copy(r) \/ R_Return(r)
    \/ \E c \in Contents : FileWrite(c)
    \/ FileDelete
    \/ Stop

\* the same with the scheduling of the threads: a thread that can run does run
\* (time.sleep returns, the loop over the rows goes on, a with block is left),
\* and the watcher gets the lock if it is free again and again
SpecSynLive ==
    /\ SynLiveInit /\ [][SynLiveNext]_vars
    /\ WF_vars(W_Step)
    /\ WF_wloc(W_RowTaken)
    /\ SF_vars(W_Acquire)
    /\ \A r \in Readers : WF_vars(R_Copy(r)) /\ WF_vars(R_Return(r))

-----
(* The engine in use: search() is called with raw queries and synonym      *)
(* snapshots while the clock advances.                                     *)

Q_vaz_2114 == <<1074, 1072, 1079, 32, 50, 49, 49, 52>>                \* "ваз 2114"
Q_2114 == <<50, 49, 49, 52>>                                          \* "2114"
Q_2114_2015 == <<50, 49, 49, 52, 32, 50, 48, 49, 53>>                 \* "2114 2015"
Q_211 == <<50, 49, 49>>                                               \* "211"
Q_211_2015 == <<50, 49, 49, 32, 50, 48, 49, 53>>                      \* "211 2015"
Q_21099 == <<50, 49, 48, 57, 57>>                                     \* "21099"
Q_bmw_x5_2015 == <<98, 109, 119, 32, 120, 53, 32, 50, 48, 49, 53>>    \* "bmw x5 2015"
Q_BMW_X5_2015 == <<66, 77, 87, 32, 88, 53, 32, 50, 48, 49, 53>>       \* "BMW X5 2015"
Q_toyotta == <<116, 111, 121, 111, 116, 116, 97>>                     \* "toyotta"
Q_toyot == <<116, 111, 121, 111, 116>>                                \* "toyot"
Q_toyota_2015 == <<116, 111, 121, 111, 116, 97, 32, 50, 48, 49, 53>>  \* "toyota 2015"
Q_rio_2015 == <<114, 105, 111, 32, 50, 48, 49, 53>>                   \* "rio 2015"
Q_2015 == <<50, 48, 49, 53>>                                          \* "2015"
Q_x == <<120>>                                                        \* "x"
\* "Тойота ленд крузер"
Q_land_cruiser ==
    <<1058, 1086, 1081, 1086, 1090, 1072, 32, 108, 97, 110, 100, 32, 99, 114, 117, 105, 115, 101, 114>>

Queries ==
    {Q_vaz_2114, Q_2114, Q_2114_2015, Q_211, Q_211_2015, Q_21099, Q_bmw_x5_2015, Q_BMW_X5_2015, Q_toyotta,
     Q_toyot, Q_toyota_2015, Q_rio_2015, Q_2015, Q_x, Q_land_cruiser}

\* the snapshots get_synonyms() can hand to search()
SynTables == {EmptyDict, BuildTable(RowsA), BuildTable(RowsB)}

\* at most MaxQueries different queries are searched in a run
MaxQueries == 1

\* the queries searched so far
Searched == {k \in DOMAIN fresh : fresh[k] # <<>>}

\* a variant of the engine that never applies the snapshot it is passed
ComputedWithoutSynonyms == [q \in Queries |-> [s \in SynTables |-> Compute(q, EmptyDict)]]

\* Compute, tabulated over the queries and snapshots in use
Computed == [q \in Queries |-> [s \in SynTables |-> Compute(q, s)]]

\* time passes outside the calls
Tick ==
    /\ now < MaxTime
    /\ now' = now + 1
    /\ last' = CallRecord("tick", <<>>, <<>>, <<>>, 0)
    /\ UNCHANGED <<cache, fresh, synVars, dbVars>>

\* search(query, synonyms), lines 41-43: the cached result is returned
SearchHit(q, synonyms) ==
    /\ CacheGetRet(cache, q, now) # <<>>
    /\ cache' = CacheAfterGet(cache, q, now)
    /\ last' = [CallRecord("search", q, <<synonyms>>, CacheGetRet(cache, q, now), 0)
                   EXCEPT !.hit = TRUE]
    /\ UNCHANGED <<now, fresh, synVars, dbVars>>

\* search(), lines 41-113 on a miss: the result is computed, stored at the time
\* set() reads the clock (d seconds after get() read it) and returned
SearchStore(q, synonyms, d) ==
    /\ CacheGetRet(cache, q, now) = <<>>
    /\ now + d <= MaxTime
    /\ LET c == Computed[q][synonyms]
       IN  /\ cache' = CacheAfterSet(CacheAfterGet(cache, q, now), q, c.result, now + d)
           /\ last' = [CallRecord("search", q, <<synonyms>>, <<c.result>>, 0)
                          EXCEPT !.year = c.year, !.parts_syn = c.parts_syn,
                                 !.ran = c.ran, !.pre = c.pre]
           /\ fresh' = [fresh EXCEPT ![q] =
                            <<StoreRecord(now + d, c.result,
                                          CacheAfterGet(cache, q, now), q)>>]
    /\ now' = now + d
    /\ UNCHANGED <<synVars, dbVars>>

\* a miss, in a run that stays within MaxQueries different queries
SearchMiss(q, synonyms, d) ==
    /\ Cardinality(Searched \cup {q}) <= MaxQueries
    /\ SearchStore(q, synonyms, d)

Init == now = 0 /\ cache = EmptyDict /\ last = NoCall /\ fresh = NoHistory(Queries) /\ SynQuiet /\ DbQuiet

Next ==
    \/ \E q \in Queries, s \in SynTables : SearchHit(q, s)
    \/ \E q \in Queries, s \in SynTables, d \in {0, 1} : SearchMiss(q, s, d)
    \/ Tick

\* CarSearchEngine over the vehicle table, its cache and the clock
Spec == Init /\ [][Next]_vars

\* the engine asked the same query in two spellings that differ in letter case
CaseQueries == {Q_bmw_x5_2015, Q_BMW_X5_2015}

CaseInit == Init

CaseNext ==
    \/ \E q \in CaseQueries, s \in SynTables : SearchHit(q, s)
    \/ \E q \in CaseQueries, s \in SynTables, d \in {0, 1} : SearchStore(q, s, d)
    \/ Tick

SpecCase == CaseInit /\ [][CaseNext]_vars

-----------------------------------------------------------------------------
(* handle_message: two requests served by the one event loop, while the    *)
(* watcher thread publishes tables and the clock advances.                  *)

Requests == {"a", "b"}

\* the queries the requests ask: "toyotta" and "ваз 2114"
RequestQueries == {Q_toyotta, Q_vaz_2114}

\* what is remembered of a request that was served: the text, whether search()
\* missed the cache, the result it returned, and its place in the order of service
Served(q, missed, result, n) == [key |-> q, missed |-> missed, ret |-> result, n |-> n]
NotServed == Served(<<>>, FALSE, <<>>, 0)

\* the requests served so far
Done == {r \in Requests : rpc[r] = "done"}

\* handle_message, lines 188-211: synonyms = get_synonyms(), then search(text,
\* synonyms) with no await in between, so the request runs from the snapshot to
\* the stored result before the loop serves another one.  On a miss set() reads
\* the clock d seconds after get() did.
Handle(r, q, d) ==
    /\ rpc[r] = "idle"
    /\ LET synonyms == heap[synRef]
           cached == CacheGetRet(cache, q, now)
       IN  /\ rsnap' = [rsnap EXCEPT ![r] = synonyms]
           /\ IF cached # <<>>
              THEN /\ d = 0
                   /\ cache' = CacheAfterGet(cache, q, now)
                   /\ seen' = [seen EXCEPT ![r] = Served(q, FALSE, cached[1], Cardinality(Done) + 1)]
              ELSE /\ now + d <= MaxTime
                   /\ cache' = CacheAfterSet(CacheAfterGet(cache, q, now), q,
                                             Computed[q][synonyms].result, now + d)
                   /\ seen' = [seen EXCEPT ![r] = Served(q, TRUE, Computed[q][synonyms].result,
                                                         Cardinality(Done) + 1)]
    /\ now' = now + d
    /\ rpc' = [rpc EXCEPT ![r] = "done"]
    /\ UNCHANGED <<last, fresh, dbVars, file, heap, synRef, lastMtime, lock, stop, wpc, wloc>>

\* reload_synonyms, line 49, as the requests see it: another table is published
Publish(s) ==
    /\ heap[synRef] # s
    /\ heap' = [heap EXCEPT ![synRef] = s]
    /\ UNCHANGED <<cacheVars, dbVars, file, synRef, lastMtime, lock, stop, wpc, wloc, rpc, rsnap, seen>>

RequestInit ==
    /\ now = 0 /\ cache = EmptyDict /\ last = NoCall /\ fresh = NoHistory(Queries)
    /\ DbQuiet
    /\ file = [exists |-> TRUE, mtime |-> 1, content |-> 1]
    /\ \E s \in SynTables : heap = [i \in {1} |-> s]
    /\ synRef = 1
    /\ lastMtime = 1
    /\ lock = "free"
    /\ stop = FALSE
    /\ wpc = "sleep"
    /\ wloc = NoLocals
    /\ rpc = [r \in Requests |-> "idle"]
    /\ rsnap = [r \in Requests |-> EmptyDict]
    /\ seen = [r \in Requests |-> NotServed]

RequestNext ==
    \/ \E r \in Requests, q \in RequestQueries, d \in {0, 1} : Handle(r, q, d)
    \/ \E s \in SynTables : Publish(s)
    \/ Tick

\* two requests of handle_message over one engine and one synonym manager
SpecRequests == RequestInit /\ [][RequestNext]_vars

-----------------------------------------------------------------------------
(* SearchCache on its own: every method, called in any order.              *)

CacheKeys == {Q_2114, Q_toyot}
CacheValues == {Computed[q][EmptyDict].result : q \in CacheKeys}

\* get(k); the record keeps the timestamp found at line 35, if any
C_Get(k) ==
    /\ cache' = CacheAfterGet(cache, k, now)
    /\ last' = IF GetRaises(cache, k, now)
               THEN CallRecord("get: KeyError", k, <<>>, <<>>, 0)
               ELSE [CallRecord("get", k, <<>>, CacheGetRet(cache, k, now), 0)
                        EXCEPT !.pre = IF k \in DOMAIN cache THEN <<cache[k].ts>> ELSE <<>>]
    /\ UNCHANGED <<now, fresh, synVars, dbVars>>

C_Set(k, v) ==
    /\ cache' = CacheAfterSet(cache, k, v, now)
    /\ last' = CallRecord("set", k, <<v>>, <<>>, 0)
    /\ fresh' = [fresh EXCEPT ![k] = <<StoreRecord(now, v, cache, k)>>]
    /\ UNCHANGED <<now, synVars, dbVars>>

\* clear(), line 58
C_Clear ==
    /\ cache' = EmptyDict
    /\ last' = CallRecord("clear", <<>>, <<>>, <<>>, 0)
    /\ UNCHANGED <<now, fresh, synVars, dbVars>>

C_ClearExpired ==
    /\ cache' = CacheAfterClearExpired(cache, now)
    /\ last' = IF ClearExpiredRaises(cache, now)
               THEN CallRecord("clear_expired: KeyError", <<>>, <<>>, <<>>, 0)
               ELSE CallRecord("clear_expired", <<>>, <<>>, <<>>,
                               Cardinality(ExpiredKeys(cache, now)))
    /\ UNCHANGED <<now, fresh, synVars, dbVars>>

CacheInit ==
    now = 0 /\ cache = EmptyDict /\ last = NoCall /\ fresh = NoHistory(CacheKeys) /\ SynQuiet /\ DbQuiet

CacheNext ==
    \/ \E k \in CacheKeys : C_Get(k)
    \/ \E k \in CacheKeys, v \in CacheValues : C_Set(k, v)
    \/ C_Clear
    \/ C_ClearExpired
    \/ Tick

SpecCache == CacheInit /\ [][CacheNext]_vars

-----------------------------------------------------------------------------
(* Properties of the result cache                                          *)

\* a step that is a call of search() for q: the conditions of C1 on it
C1_Call(q) ==
    /\ (fresh[q] # <<>> /\ now - fresh[q][1].t < TTL) =>
           /\ last'.hit
           /\ last'.ret = <<fresh[q][1].r>>
           /\ last'.ran = <<>>
           /\ cache' = cache /\ fresh' = fresh
    /\ ~last'.hit =>
           /\ q \in DOMAIN cache'
           /\ cache'[q] = [ts |-> now', val |-> last'.ret[1]]
           /\ fresh'[q] = <<[t |-> now', r |-> last'.ret[1], prev |-> <<>>]>>

\* C1: once search(q, s1) has computed and stored a result r at time t, every
\* search(q, s2) at a time t' with t' - t < TTL returns r from the cache, runs no
\* matching strategy and changes nothing, whatever snapshot s2 it is given; and a
\* call that computes its result stores it under the raw query q, with the time
\* of the store, before it returns.
C1_Memoization ==
    [][\A q \in Queries : (last'.op = "search" /\ last'.key = q) => C1_Call(q)]_vars

\* a later call, given a snapshot with which the query computes another result,
\* still returned the stored one
C1_Witness ==
    /\ last.op = "search" /\ last.hit
    /\ now > fresh[last.key][1].t
    /\ last.ret = <<fresh[last.key][1].r>>
    /\ Computed[last.key][last.arg[1]].result # last.ret[1]

\* a step that is a call of get(k): the conditions of C2 on it
C2_Call(k) ==
    /\ (last'.ret # <<>>) <=> (k \in DOMAIN cache /\ now - cache[k].ts < TTL)
    /\ last'.ret # <<>> => (last'.ret = <<cache[k].val>> /\ cache' = cache)
    /\ (k \in DOMAIN cache /\ now - cache[k].ts >= TTL) =>
           /\ last'.ret = <<>>
           /\ DOMAIN cache' = DOMAIN cache \ {k}
           /\ \A j \in DOMAIN cache' : cache'[j] = cache[j]
    /\ k \notin DOMAIN cache => (last'.ret = <<>> /\ cache' = cache)

\* C2: get(key) returns the stored value if and only if the key has an entry
\* and now - storedAt < TTL; an entry with now - storedAt >= TTL is removed (the
\* other entries stay) and None is returned; with no entry, None is returned and
\* the cache is unchanged.  So no value of age TTL or more is ever returned.
C2_Freshness ==
    [][\A k \in CacheKeys : (last'.op = "get" /\ last'.key = k) => C2_Call(k)]_vars

\* a get at the very age TTL found the entry, removed it and returned None,
\* and left the other key's entry in place
C2_Witness ==
    /\ last.op = "get" /\ last.ret = <<>>
    /\ fresh[last.key] # <<>> /\ now - fresh[last.key][1].t = TTL
    /\ last.key \notin DOMAIN cache
    /\ DOMAIN cache # {}

\* a step that is a call of get(k): the conditions of C3 on it
C3_Call(k) ==
    /\ (last.op = "set" /\ last.key = k) => last'.ret = last.arg
    /\ (fresh[k] # <<>> /\ now - fresh[k][1].t >= TTL) => last'.ret = <<>>

\* C3: a get(q) that follows set(q, r) immediately returns r, whatever the entry
\* q had before the set; a get(q) once TTL has elapsed since the last set(q, .)
\* returns None.
C3_RoundTrip ==
    [][\A k \in CacheKeys : (last'.op = "get" /\ last'.key = k) => C3_Call(k)]_vars

\* a get returned the value of a set that had replaced another value
C3_Witness ==
    /\ last.op = "get" /\ last.ret # <<>>
    /\ fresh[last.key] # <<>> /\ fresh[last.key][1].t = now
    /\ last.ret = <<fresh[last.key][1].r>>
    /\ fresh[last.key][1].prev # <<>>
    /\ fresh[last.key][1].prev # last.ret

-----------------------------------------------------------------------------
(* Properties of search() on a cache miss.  SearchComputed says that the    *)
(* last call was a search that computed its result.                        *)

SearchComputed == last.op = "search" /\ ~last.hit

\* the set of rows of a frame
RowsIn(frame) == {frame[i] : i \in 1..Len(frame)}

\* C4: in every result a search computes for a query with a year in it, every
\* record of matches has a year range for which year_in_range(range, year) is
\* true; the similar set is not narrowed by the year: it is all of what the
\* similar-by-word lookup gives (or empty when that lookup is not made).
C4_FinalYearFilter ==
    (SearchComputed /\ last.year # NoYear) =>
        /\ \A r \in RowsIn(last.ret[1].matches) : year_in_range(Cars[r].years, last.year)
        /\ last.ret[1].similar =
               IF last.pre = <<>> /\ Len(last.parts_syn) >= 1
               THEN _search_similar_by_year_word(last.parts_syn[1])
               ELSE EmptyFrame

\* the final filter removed a record the strategy had matched
C4_Witness ==
    /\ SearchComputed /\ last.year # NoYear
    /\ last.ret[1].matches # <<>>
    /\ Len(last.ret[1].matches) < Len(last.pre)
    /\ \E r \in RowsIn(last.pre) : ~year_in_range(Cars[r].years, last.year)

\* a similar set holds a record whose range does not contain the query's year
C4_SimilarOutOfRange ==
    /\ SearchComputed /\ last.year # NoYear
    /\ \E r \in RowsIn(last.ret[1].similar) : ~year_in_range(Cars[r].years, last.year)

\* the shapes of a token list
IsNumericModel(p) == Len(p) = 1 /\ IsDigitStr(p[1]) /\ Len(p[1]) \in {3, 4}
IsOneWord(p) == Len(p) = 1 /\ ~IsNumericModel(p) /\ Len(p[1]) > 1

\* C5 as stated: every token list has exactly one strategy run on it, the one
\* its shape selects.
C5_ExactlyOne ==
    SearchComputed =>
        /\ Len(last.ran) = 1
        /\ IsNumericModel(last.parts_syn) => last.ran = <<"vaz">>
        /\ Len(last.parts_syn) = 2 => last.ran = <<"brand_model">>
        /\ Len(last.parts_syn) >= 3 => last.ran = <<"multiple_words">>
        /\ (IsOneWord(last.parts_syn) /\ ~IsDigitStr(last.parts_syn[1]))
               => last.ran = <<"single_word">>

\* C5, amended: at most one strategy is run, the one the shape selects: a single
\* all-digit token of length 3 or 4 the numeric-model strategy, two tokens the
\* brand+model strategy, three or more the all-tokens strategy, any other single
\* token longer than one character (all-digit ones of other lengths included)
\* the single-word chain; an empty token list and a single one-character token
\* have no strategy run at all.
C5_Dispatch ==
    SearchComputed =>
        /\ Len(last.ran) <= 1
        /\ IsNumericModel(last.parts_syn) => last.ran = <<"vaz">>
        /\ Len(last.parts_syn) = 2 => last.ran = <<"brand_model">>
        /\ Len(last.parts_syn) >= 3 => last.ran = <<"multiple_words">>
        /\ IsOneWord(last.parts_syn) => last.ran = <<"single_word">>
        /\ (last.parts_syn = <<>> \/ (Len(last.parts_syn) = 1 /\ Len(last.parts_syn[1]) <= 1))
               => (last.ran = <<>> /\ last.ret[1].matches = <<>>)

\* a single all-digit token of five characters went to the single-word chain
C5_Witness ==
    /\ SearchComputed
    /\ Len(last.parts_syn) = 1 /\ IsDigitStr(last.parts_syn[1]) /\ Len(last.parts_syn[1]) = 5
    /\ last.ran = <<"single_word">>

\* C6 as stated: for the query "ваз 2114", with the record whose model field is
\* "2108/2109/2114" in the table, the numeric-model strategy is run and that
\* record is in the matches returned.
C6_VazScenario ==
    (SearchComputed /\ last.key = Q_vaz_2114) =>
        /\ last.ran = <<"vaz">>
        /\ \E r \in RowsIn(last.ret[1].matches) : Cars[r].model = Cars[1].model

\* "ваз 2114" went to the brand+model strategy as the two tokens "vaz" and
\* "2114", and nothing was found
C6_Witness ==
    /\ SearchComputed /\ last.key = Q_vaz_2114
    /\ last.parts_syn = <<<<118, 97, 122>>, Q_2114>>
    /\ last.ran = <<"brand_model">>
    /\ last.ret[1].matches = <<>> /\ last.ret[1].similar = <<>>

\* the rows whose normalized brand is "toyota"
ToyotaRows == {r \in RowsIn(df) : brand_lower[r] = <<116, 111, 121, 111, 116, 97>>}

\* C7 as stated: "toyotta", left as it is by the synonyms and equal to no brand,
\* is matched by the brand substring-contains stage to the "toyota" records.
C7_ToyottaMatches ==
    (SearchComputed /\ last.key = Q_toyotta /\ last.parts_syn = <<Q_toyotta>>) =>
        /\ RowsIn(last.ret[1].matches) = ToyotaRows
        /\ last.ret[1].fallbacks = <<"brand contains (fallback)">>

\* C7, amended: a token that is a part of a brand, such as "toyot", equal to no
\* brand and in no model, is matched by the brand substring-contains stage to the
\* "toyota" records; "toyotta" is a part of no brand and matches nothing; and
\* whenever no stage of the single-word chain matches, matches is empty, and so
\* is similar unless a year was taken out of the query.
C7_SingleWordCascade ==
    /\ (SearchComputed /\ last.key = Q_toyot /\ last.parts_syn = <<Q_toyot>>) =>
           /\ RowsIn(last.ret[1].matches) = ToyotaRows
           /\ last.ret[1].fallbacks = <<"brand contains (fallback)">>
    /\ (SearchComputed /\ last.key = Q_toyotta /\ last.parts_syn = <<Q_toyotta>>) =>
           /\ last.ret[1].matches = <<>>
           /\ last.ret[1].similar = <<>>
           /\ last.ret[1].fallbacks = <<>>
    /\ (SearchComputed /\ last.ran = <<"single_word">> /\ last.pre = <<>>) =>
           /\ last.ret[1].matches = <<>>
           /\ last.year = NoYear => last.ret[1].similar = <<>>

\* "toyot" was matched to the two "toyota" records by the brand-contains stage
C7_Witness ==
    /\ SearchComputed /\ last.key = Q_toyot
    /\ last.ran = <<"single_word">>
    /\ RowsIn(last.ret[1].matches) = ToyotaRows /\ ToyotaRows # {}
    /\ last.ret[1].fallbacks = <<"brand contains (fallback)">>

\* the records whose raw model field, split on '/', ',' and whitespace, has the
\* word as one of its tokens
ModelTokenRows(word) ==
    {r \in RowsIn(df) :
        \E i \in 1..Len(Cars[r].model), j \in 1..Len(Cars[r].model) :
            /\ SubSeq(Cars[r].model, i, j) = word
            /\ (i = 1 \/ Cars[r].model[i - 1] \in {47, 44} \/ IsSpaceCh(Cars[r].model[i - 1]))
            /\ (j = Len(Cars[r].model) \/ Cars[r].model[j + 1] \in {47, 44}
                    \/ IsSpaceCh(Cars[r].model[j + 1]))
            /\ \A k \in i..j : Cars[r].model[k] \notin {47, 44} /\ ~IsSpaceCh(Cars[r].model[k])}

\* C8 as stated: whenever the matches returned are empty, a year was taken out
\* of the query and a token is left, similar is the set of records with the first
\* token among the tokens of their raw model field.
C8_SimilarWhenEmpty ==
    (SearchComputed /\ last.ret[1].matches = <<>> /\ last.year # NoYear
        /\ Len(last.parts_syn) >= 1) =>
        RowsIn(last.ret[1].similar) = ModelTokenRows(last.parts_syn[1])

\* C8, amended: whenever the strategy's matches, before the final year filter,
\* are empty, a year was taken out of the query and a token is left, similar is
\* the set of records with the first token among the tokens of their raw model
\* field; when the strategy matched and only the final year filter emptied the
\* matches, similar is empty.
C8_SimilarFallback ==
    (SearchComputed /\ last.year # NoYear /\ Len(last.parts_syn) >= 1) =>
        /\ last.pre = <<>> =>
               RowsIn(last.ret[1].similar) = ModelTokenRows(last.parts_syn[1])
        /\ last.pre # <<>> => last.ret[1].similar = <<>>

\* no record matched "2114" in 2015, and the record with the model token "2114"
\* is offered as similar
C8_Witness ==
    /\ SearchComputed /\ last.year # NoYear /\ Len(last.parts_syn) >= 1
    /\ last.pre = <<>>
    /\ last.ret[1].similar # <<>>
    /\ RowsIn(last.ret[1].similar) = ModelTokenRows(last.parts_syn[1])


-----------------------------------------------------------------------------
(* Properties of the synonym manager                                       *)

\* the tables a finished build can give, and the empty table of a manager that
\* has loaded nothing
CompleteTables ==
    {EmptyDict} \cup {BuildTable(RowsOf(c)) : c \in {x \in Contents : Parseable(x)}}

\* reader r holds the dict get_synonyms() made for it
HasSnapshot(r) == rpc[r] \in {"release", "have"}

\* C9: in every interleaving of the watcher's reload with the callers of
\* get_synonyms(), the mapping a caller gets is a complete table (the empty
\* table or the whole result of one build), never a partly filled one; it is a
\* dict of its own, which later reloads do not change and whose changes by the
\* caller do not reach the published table.
C9_SnapshotConsistency ==
    /\ heap[synRef] \in CompleteTables
    /\ \A r \in Readers : HasSnapshot(r) =>
           /\ rsnap[r].got \in CompleteTables
           /\ rsnap[r].id \notin {synRef, wloc.dict}
           /\ heap[rsnap[r].id] =
                  IF rsnap[r].mutated THEN CallerEdit(rsnap[r].got) ELSE rsnap[r].got

\* a caller took its copy while the watcher's new dict was partly filled
C9_Witness ==
    \E r \in Readers :
        /\ rpc[r] = "release"
        /\ rsnap[r].got # EmptyDict
        /\ wpc = "build" /\ wloc.rows # <<>>
        /\ heap[wloc.dict] \notin CompleteTables

\* a caller holds a copy it has changed, and a reload has since published
\* another table
C9_HeldAcrossReload ==
    \E r \in Readers :
        /\ rpc[r] = "have" /\ rsnap[r].mutated
        /\ rsnap[r].got # EmptyDict
        /\ heap[synRef] # rsnap[r].got

\* the watcher's step at line 38 of reload_synonyms
AtCompare == wpc = "compare" /\ wpc' # "compare"

TableUnchanged == heap' = heap /\ synRef' = synRef /\ lastMtime' = lastMtime

\* C10 as stated: when the file's modification time is the one the previous
\* call of reload_synonyms saw, the call does not read the file and leaves the
\* table and the recorded modification time as they are.
C10_ConsecutiveNoOp ==
    [][(AtCompare /\ seen.prev = wloc.mtime) => (wpc' = "sleep" /\ TableUnchanged)]_vars

\* C10, amended: when the file's modification time is the one recorded at the
\* last load that succeeded (_last_mtime), the call does not read the file and
\* leaves the table and the recorded time as they are; in every other case the
\* file is read, also when the previous call saw the same modification time and
\* failed to load the file.
C10_NoOpOnRecordedMtime ==
    [][AtCompare =>
          /\ lastMtime = wloc.mtime => (wpc' = "sleep" /\ TableUnchanged)
          /\ lastMtime # wloc.mtime => wpc' = "read"]_vars

\* a call found the modification time of the last load and returned at once,
\* the table being a loaded one
C10_Witness ==
    /\ wpc = "sleep"
    /\ seen.noop /\ seen.prev = lastMtime
    /\ file.exists /\ file.mtime = lastMtime
    /\ heap[synRef] # EmptyDict

\* the watcher's step at which reload_synonyms fails: getmtime on a file that is
\* gone (line 37), or read_csv and the row loop on a file they cannot take (40-47)
ReloadFails ==
    \/ (wpc = "getmtime" /\ wpc' # "getmtime" /\ ~file.exists)
    \/ (wpc = "read" /\ wpc' # "read" /\ ~(file.exists /\ Parseable(file.content)))

\* C11: when reading or parsing the file fails in reload_synonyms, the call
\* returns to the watcher's loop (no exception leaves it), the published table
\* and the recorded modification time are as they were, the lock is not held by
\* the watcher, and the watcher goes on: it ends only once stop() was called.
C11_FailSoftReload ==
    [][/\ ReloadFails =>
             /\ wpc' = "sleep"
             /\ TableUnchanged
             /\ lock' = lock /\ lock' # "w"
       /\ wpc' = "done" => stop']_vars

\* a reload of an unreadable file has failed, the table loaded before is still
\* published, and the watcher has begun its next round
C11_Witness ==
    /\ wpc = "exists" /\ ~stop
    /\ file.exists /\ ~Parseable(file.content)
    /\ seen.prev = file.mtime /\ ~seen.noop
    /\ lastMtime # file.mtime
    /\ heap[synRef] # EmptyDict

-----------------------------------------------------------------------------
(* The start-up on its own: the data files are found in some state, the     *)
(* Database is constructed, then the handlers and their engine               *)

BootInit ==
    /\ CacheQuiet /\ SynQuiet
    /\ files \in DataFiles
    /\ db = NoneDb
    /\ boot = [pc |-> "start", engine_df |-> "None"]

BootNext ==
    \/ B_Database
    \/ B_MessageHandler

SpecBoot == BootInit /\ [][BootNext]_vars

-----------------------------------------------------------------------------
(* The functions on their own: an input is drawn at the start, and one     *)
(* step applies the function to it.  last holds the input, then the call.  *)

\* base "ford_focus_canon", synonyms "ford focus"; base "x", synonyms "focus"
RowsF ==
    << [base |-> <<102, 111, 114, 100, 95, 102, 111, 99, 117, 115, 95, 99, 97, 110, 111, 110>>,
        synonyms |-> <<102, 111, 114, 100, 32, 102, 111, 99, 117, 115>>],
       [base |-> <<120>>,
        synonyms |-> <<102, 111, 99, 117, 115>>] >>

\* "ford", "Ford", "focus", "x", "vaz", "2114", "kamri"
SynWords ==
    {<<102, 111, 114, 100>>, <<70, 111, 114, 100>>, <<102, 111, 99, 117, 115>>, <<120>>,
     <<118, 97, 122>>, Q_2114, <<107, 97, 109, 114, 105>>}

\* token lists of up to MaxTokens words
MaxTokens == 2

TokenLists == UNION {[1..n -> SynWords] : n \in 0..MaxTokens}

PureTables == SynTables \cup {BuildTable(RowsF)}

SynonymInputs ==
    {CallRecord("in_apply_synonyms", parts, <<t>>, <<>>, 0) : parts \in TokenLists, t \in PureTables}

\* apply_synonyms(parts, synonyms)
P_ApplySynonyms ==
    /\ last.op = "in_apply_synonyms"
    /\ last' = CallRecord("apply_synonyms", last.key, last.arg,
                          <<apply_synonyms(last.key, last.arg[1])>>, 0)
    /\ UNCHANGED <<now, cache, fresh, synVars, dbVars>>

\* a number below 100 written with two digits
TwoDigits(n) == IF n < 10 THEN <<48>> \o ToStr(n) ELSE ToStr(n)

\* "MM.YY"
MMYY(m, y) == TwoDigits(m) \o <<46>> \o TwoDigits(y)

\* what separates the two ends: "-", " - ", an en dash
RangeDashes == {<<45>>, <<32, 45, 32>>, <<8211>>}

\* the markers of an open end: "н.в.", "Н.В.", "нв", "now"
PresentMarks ==
    {<<1085, 46, 1074, 46>>, <<1053, 46, 1042, 46>>, <<1085, 1074>>, <<110, 111, 119>>}

RangeMonths == {5, 11}

ShortYears == {5, 10, 15, 99}

LongYears == {1996, 2005, 2010, 2015}

\* the range strings of the four start-end and open-ended formats, each with
\* the years it encodes; hi = NoYear when the end is open
RangeCases ==
    {[text |-> MMYY(m, y) \o d \o p, lo |-> 2000 + y, hi |-> NoYear] :
        m \in RangeMonths, y \in ShortYears, d \in RangeDashes, p \in PresentMarks}
    \cup
    {[text |-> MMYY(a[1], a[2]) \o d \o MMYY(b[1], b[2]), lo |-> 2000 + a[2], hi |-> 2000 + b[2]] :
        a \in RangeMonths \X ShortYears, b \in RangeMonths \X ShortYears, d \in RangeDashes}
    \cup
    {[text |-> ToStr(y) \o d \o p, lo |-> y, hi |-> NoYear] :
        y \in LongYears, d \in RangeDashes, p \in PresentMarks}
    \cup
    {[text |-> ToStr(a) \o d \o ToStr(b), lo |-> a, hi |-> b] :
        a \in LongYears, b \in LongYears, d \in RangeDashes}

ProbeYears ==
    {1995, 1996, 1997, 2004, 2005, 2006, 2009, 2010, 2011, 2014, 2015, 2016, 2098, 2099, 2100}

RangeInputs ==
    {CallRecord("in_year_in_range", c.text, <<y>>, <<>>, 0) : c \in RangeCases, y \in ProbeYears}

\* the bare single-year strings "MM.YY" and "YYYY", each with the year it encodes
BareCases ==
    {[text |-> MMYY(m, y), year |-> 2000 + y] : m \in RangeMonths, y \in ShortYears}
    \cup {[text |-> ToStr(y), year |-> y] : y \in LongYears}

BareInputs ==
    {CallRecord("in_year_in_range", c.text, <<y>>, <<>>, 0) : c \in BareCases, y \in ProbeYears}

\* year_in_range(year_str, year)
P_YearInRange ==
    /\ last.op = "in_year_in_range"
    /\ last' = CallRecord("year_in_range", last.key, last.arg,
                          <<year_in_range(last.key, last.arg[1])>>, 0)
    /\ UNCHANGED <<now, cache, fresh, synVars, dbVars>>

\* texts of up to MaxText characters over "a", "A", "1", " ", "б", "Ё", "ь", "щ"
MaxText == 3

TextAlphabet == {97, 65, 49, 32, 1073, 1025, 1100, 1097}

Texts == UNION {[1..n -> TextAlphabet] : n \in 0..MaxText}

NormalizeInputs == {CallRecord("in_normalize", x, <<>>, <<>>, 0) : x \in Texts}

\* _normalize_text(s)
P_Normalize ==
    /\ last.op = "in_normalize"
    /\ last' = CallRecord("normalize", last.key, <<normalize_text(last.key)>>, <<>>, 0)
    /\ UNCHANGED <<now, cache, fresh, synVars, dbVars>>

\* _normalize_text applied to what the first call returned
P_NormalizeAgain ==
    /\ last.op = "normalize"
    /\ last' = CallRecord("normalize_again", last.key, last.arg, <<normalize_text(last.arg[1])>>, 0)
    /\ UNCHANGED <<now, cache, fresh, synVars, dbVars>>

\* "toyota", "land", "cruiser", "bmw", "x5", "kia", "ri", "2114", "lada"
PartWords ==
    {<<116, 111, 121, 111, 116, 97>>, <<108, 97, 110, 100>>, <<99, 114, 117, 105, 115, 101, 114>>,
     <<98, 109, 119>>, <<120, 53>>, <<107, 105, 97>>, <<114, 105>>, Q_2114, <<108, 97, 100, 97>>}

\* lists of two to MaxParts tokens
MaxParts == 3

PartLists == UNION {[1..n -> PartWords] : n \in 2..MaxParts}

StrategyInputs == {CallRecord("in_run_strategy", parts, <<>>, <<>>, 0) : parts \in PartLists}

\* search(), lines 60-86, on the tokens left after the synonyms, no year extracted
P_RunStrategy ==
    /\ last.op = "in_run_strategy"
    /\ last' = CallRecord("run_strategy", last.key, <<>>, <<RunStrategy(last.key, NoYear)>>, 0)
    /\ UNCHANGED <<now, cache, fresh, synVars, dbVars>>

\* model fields of up to MaxField characters over "1", "2", "/", ",", " ", "[", "]",
\* and the longer ones "1[]11", "11[2]1", "121 [111]", "111 [121]", "2108/2109/2114"
MaxField == 4

FieldAlphabet == {49, 50, 47, 44, 32, 91, 93}

ModelFields ==
    UNION {[1..n -> FieldAlphabet] : n \in 0..MaxField}
    \cup {<<49, 91, 93, 49, 49>>, <<49, 49, 91, 50, 93, 49>>,
          <<49, 50, 49, 32, 91, 49, 49, 49, 93>>, <<49, 49, 49, 32, 91, 49, 50, 49, 93>>,
          Cars[1].model}

\* "111", "121", "2114"
VazNumbers == {<<49, 49, 49>>, <<49, 50, 49>>, Q_2114}

VazInputs ==
    {CallRecord("in_vaz_match", f, <<n>>, <<>>, 0) : f \in ModelFields, n \in VazNumbers}

\* _search_vaz_model, lines 146-152: vaz_match on one record's model field
P_VazMatch ==
    /\ last.op = "in_vaz_match"
    /\ last' = CallRecord("vaz_match", last.key, last.arg, <<vaz_match(last.arg[1], last.key)>>, 0)
    /\ UNCHANGED <<now, cache, fresh, synVars, dbVars>>

\* the base cells "a", "b", " A", "c" and the synonyms cells "", "a", "b",
\* "a,b", "b, c", " B ," of a row of the synonym file
BaseCells == {<<97>>, <<98>>, <<32, 65>>, <<99>>}

SynonymCells ==
    {<<>>, <<97>>, <<98>>, <<97, 44, 98>>, <<98, 44, 32, 99>>, <<32, 66, 32, 44>>}

FileRows == [base : BaseCells, synonyms : SynonymCells]

\* files of up to MaxRows rows
MaxRows == 2

RowLists == UNION {[1..n -> FileRows] : n \in 0..MaxRows}

BuildInputs == {CallRecord("in_build_table", rows, <<>>, <<>>, 0) : rows \in RowLists}

\* reload_synonyms, lines 41-47: the dict built from the rows read
P_BuildTable ==
    /\ last.op = "in_build_table"
    /\ last' = CallRecord("build_table", last.key, <<>>, <<BuildTable(last.key)>>, 0)
    /\ UNCHANGED <<now, cache, fresh, synVars, dbVars>>

Q_rio_2010 == <<114, 105, 111, 32, 50, 48, 49, 48>>                   \* "rio 2010"
Q_2114_2010 == <<50, 49, 49, 52, 32, 50, 48, 49, 48>>                 \* "2114 2010"

\* queries with a year in it, for each strategy, some with matches the year
\* keeps and some with matches it drops
YearQueries ==
    {Q_rio_2010, Q_rio_2015, Q_2114_2010, Q_2114_2015, Q_211_2015, Q_bmw_x5_2015,
     Q_toyota_2015, Q_2015}

ComputeInputs ==
    {CallRecord("in_compute", q, <<s>>, <<>>, 0) : q \in YearQueries \cup {Q_211, Q_toyotta}, s \in SynTables}

\* search(), lines 45-108: the result of a miss for the query and the snapshot
P_Compute ==
    /\ last.op = "in_compute"
    /\ last' = CallRecord("compute", last.key, last.arg, <<Compute(last.key, last.arg[1]).result>>, 0)
    /\ UNCHANGED <<now, cache, fresh, synVars, dbVars>>

\* every piece of one to MaxWord characters of a column value
MaxWord == 8

Pieces(v) == {SubSeq(v, i, j) : i \in 1..Len(v), j \in 1..Len(v)} \ {<<>>}

\* the tokens the single-word strategy is asked: the pieces of the brand and model
\* columns up to MaxWord characters, among them every word of a model, "land cruiser"
\* whole, and words no record has
Words ==
    {w \in UNION {Pieces(brand_lower[r]) \cup Pieces(model_lower[r]) : r \in 1..Len(Cars)} :
        Len(w) <= MaxWord}
    \cup {model_lower[5], Q_toyotta, Q_toyot, Q_x}

WordInputs == {CallRecord("in_single_word", w, <<>>, <<>>, 0) : w \in Words}

\* _search_single_word(word)
P_SingleWord ==
    /\ last.op = "in_single_word"
    /\ last' = CallRecord("single_word", last.key, <<>>, <<_search_single_word(last.key)>>, 0)
    /\ UNCHANGED <<now, cache, fresh, synVars, dbVars>>

PureInit ==
    /\ now = 0 /\ cache = EmptyDict /\ fresh = NoHistory({}) /\ SynQuiet /\ DbQuiet
    /\ \/ last \in SynonymInputs
       \/ last \in BuildInputs
       \/ last \in VazInputs
       \/ last \in StrategyInputs
       \/ last \in RangeInputs
       \/ last \in BareInputs
       \/ last \in NormalizeInputs
       \/ last \in ComputeInputs
       \/ last \in WordInputs

PureNext ==
    \/ P_ApplySynonyms
    \/ P_YearInRange
    \/ P_Normalize
    \/ P_NormalizeAgain
    \/ P_RunStrategy
    \/ P_VazMatch
    \/ P_BuildTable
    \/ P_Compute
    \/ P_SingleWord

SpecPure == PureInit /\ [][PureNext]_vars

-----------------------------------------------------------------------------
(* Properties of the functions                                             *)

\* C12: whenever the tokens, joined by spaces and lowercased, are a key of the
\* table, apply_synonyms returns the one-element list of that key's value, also
\* when single tokens are keys too: with "ford focus" -> "ford_focus_canon" and
\* "focus" -> "x", ["ford", "focus"] gives ["ford_focus_canon"], not ["ford", "x"].
C12_PhraseFirst ==
    (last.op = "apply_synonyms" /\ Lower(Join(last.key)) \in DOMAIN last.arg[1]) =>
        last.ret = << <<last.arg[1][Lower(Join(last.key))]>> >>

\* ["ford", "focus"] was rewritten as a phrase although "focus" alone is a key
C12_Witness ==
    /\ last.op = "apply_synonyms"
    /\ last.key = << <<102, 111, 114, 100>>, <<102, 111, 99, 117, 115>> >>
    /\ last.key[2] \in DOMAIN last.arg[1]
    /\ last.arg[1][last.key[2]] = <<120>>
    /\ last.ret = << <<RowsF[1].base>> >>

\* C13: on a range string "MM.YY-present", "MM.YY-MM.YY", "YYYY-present" or
\* "YYYY-YYYY", year_in_range is true exactly for the years from the encoded start
\* to the encoded end, both included (no end when the range is open), a two-digit
\* year YY standing for 2000 + YY.
C13_RangeBounds ==
    last.op = "year_in_range" =>
        \A c \in RangeCases :
            last.key = c.text =>
                last.ret = <<(c.lo <= last.arg[1] /\ (c.hi = NoYear \/ last.arg[1] <= c.hi))>>

\* "05.10-11.15" was asked about 2015, its last year, and the answer was yes
C13_Witness ==
    /\ last.op = "year_in_range"
    /\ last.key = MMYY(5, 10) \o <<45>> \o MMYY(11, 15)
    /\ last.arg = <<2015>>
    /\ last.ret = <<TRUE>>

\* C15: normalizing an already normalized text changes nothing:
\* normalize(normalize(x)) = normalize(x) for every text x of Latin letters,
\* digits, spaces and Cyrillic letters of either case.
C15_Idempotent == last.op = "normalize_again" => last.ret = last.arg

\* "ь a" was normalized to " a", and that to "a"
C15_Witness ==
    /\ last.op = "normalize_again"
    /\ last.key = <<1100, 32, 97>>
    /\ last.arg = << <<32, 97>> >>
    /\ last.ret = << <<97>> >>

\* C25: while stop is unset a sleeping watcher goes on to its next call of
\* reload_synonyms; once stop() has been called the watcher eventually leaves its
\* loop, and having left it starts nothing again; it leaves only after stop(),
\* between two calls, without the lock.
C25_PollerLifecycle ==
    /\ [](wpc = "done" => (stop /\ lock # "w" /\ wloc = NoLocals))
    /\ [][wpc = "done" => wpc' = "done"]_vars
    /\ ((~stop /\ wpc = "sleep") ~> (wpc = "exists" \/ stop))
    /\ (stop ~> wpc = "done")

\* the watcher reloaded a rewritten file in its loop and then left the loop
C25_Witness ==
    /\ wpc = "done" /\ stop
    /\ file.exists /\ file.mtime > 1
    /\ lastMtime = file.mtime
    /\ lock = "free"

\* the file is there and can be parsed
FileGood == file.exists /\ Parseable(file.content)

\* the manager has caught up with the file: the published table is the table
\* built from the file's contents, the recorded modification time is the file's
Converged == heap[synRef] = BuildTable(RowsOf(file.content)) /\ lastMtime = file.mtime

\* C26: if from some point on the file is not written or deleted any more and is
\* there and parseable, and stop() is never called, then from some point on the
\* published table is the table built from the file's contents and the recorded
\* modification time is the file's, whatever was written, deleted or failed to
\* parse before and wherever the watcher was when the file was last written.
C26_Converges ==
    (<>[][file' = file]_file /\ <>[]FileGood /\ []~stop) => <>[]Converged

\* the watcher has reloaded a file rewritten after the start, and its next poll
\* found nothing to do
C26_Witness ==
    /\ ~stop
    /\ wpc = "sleep"
    /\ file.mtime > 1
    /\ FileGood
    /\ Converged
    /\ seen = CallSeen(file.mtime, TRUE)

-----------------------------------------------------------------------------
(* Further properties of the matching strategies                           *)

\* two tokens, the second all digits or of the model-number pattern
StrictApplies(p) == Len(p) = 2 /\ (IsDigitStr(p[2]) \/ ModelNumberPattern(p[2]))

\* the records whose normalized brand is p[1] and whose normalized model starts with p[2]
StrictRows(p) ==
    {r \in 1..Len(Cars) :
        /\ normalize_text(Cars[r].brand) = p[1]
        /\ StartsWith(normalize_text(Cars[r].model), p[2])}

\* C18: when a search computes its result for two tokens of which the second is
\* all digits or of the model-number pattern, and some record has the first token
\* as its normalized brand and a normalized model starting with the second, then
\* the brand+model strategy returns exactly those records as the matches, tagged
\* "brand+model startswith", and the all-words stage is not evaluated (it logs
\* nothing).  For "bmw x5 2015" the year is 2015, the tokens are "bmw", "x5", and
\* the record BMW X5 2010-2018 is in the matches after the year filter.
C18_StrictFirst ==
    SearchComputed =>
        /\ (StrictApplies(last.parts_syn) /\ StrictRows(last.parts_syn) # {}) =>
               /\ last.ran = <<"brand_model">>
               /\ RowsIn(last.pre) = StrictRows(last.parts_syn)
               /\ last.ret[1].fallbacks = <<"brand+model startswith">>
               /\ \A i \in 1..Len(last.ret[1].log) : last.ret[1].log[i].tag # "step 1"
        /\ last.key = Q_bmw_x5_2015 =>
               /\ last.year = 2015
               /\ last.parts_syn = << <<98, 109, 119>>, <<120, 53>> >>
               /\ \E i \in 1..Len(last.ret[1].matches) :
                      /\ normalize_text(Cars[last.ret[1].matches[i]].brand) = <<98, 109, 119>>
                      /\ normalize_text(Cars[last.ret[1].matches[i]].model) = <<120, 53>>
                      /\ year_in_range(Cars[last.ret[1].matches[i]].years, 2015)

\* "bmw x5 2015" was computed: the strict stage gave the one BMW X5 record
C18_Witness ==
    /\ SearchComputed /\ last.key = Q_bmw_x5_2015
    /\ last.ret[1].fallbacks = <<"brand+model startswith">>
    /\ Len(last.ret[1].matches) = 1
    /\ StrictRows(last.parts_syn) = RowsIn(last.ret[1].matches)

\* the records each stage of the single-word chain selects for a word
StageRows(n, word) ==
    {r \in 1..Len(Cars) :
        CASE n = 1 -> normalize_text(Cars[r].brand) = word
          [] n = 2 -> Contains(normalize_text(Cars[r].model), word)
          [] n = 3 -> Contains(normalize_text(Cars[r].brand), word)
          [] n = 4 -> InList(word, Split(normalize_text(Cars[r].model)))
          [] n = 5 -> Contains(normalize_text(Cars[r].model), word)}

StageTags ==
    <<"brand==", "model contains all", "brand contains (fallback)", "model word",
      "model contains (fallback)">>

\* the first stage with a record for the word, 0 when there is none
FirstStage(word) ==
    IF \E n \in 1..5 : StageRows(n, word) # {}
        THEN CHOOSE n \in 1..5 :
                 StageRows(n, word) # {} /\ \A k \in 1..(n - 1) : StageRows(k, word) = {}
        ELSE 0

\* C19: when a search computes its result with the single-word strategy, the
\* matches before the year filter are the records of the first non-empty stage in
\* the order brand equals, model equals or contains, brand contains, model has the
\* word, model contains, each record once, tagged with that stage (no matches and
\* no tag when all are empty); so a word equal to some brand gives brand-equal
\* records only.
C19_SingleWordChain ==
    (SearchComputed /\ last.ran = <<"single_word">>) =>
        /\ FirstStage(last.parts_syn[1]) = 0 =>
               last.pre = <<>> /\ last.ret[1].fallbacks = <<>>
        /\ FirstStage(last.parts_syn[1]) # 0 =>
               /\ RowsIn(last.pre) = StageRows(FirstStage(last.parts_syn[1]), last.parts_syn[1])
               /\ Len(last.pre) = Cardinality(RowsIn(last.pre))
               /\ last.ret[1].fallbacks = <<StageTags[FirstStage(last.parts_syn[1])]>>
        /\ StageRows(1, last.parts_syn[1]) # {} =>
               \A i \in 1..Len(last.pre) :
                   normalize_text(Cars[last.pre[i]].brand) = last.parts_syn[1]

\* "toyota" is a brand and is contained in a brand: the two TOYOTA records came
\* back from the first stage
C19_Witness ==
    /\ SearchComputed /\ last.ran = <<"single_word">>
    /\ last.parts_syn = << <<116, 111, 121, 111, 116, 97>> >>
    /\ StageRows(3, last.parts_syn[1]) # {}
    /\ Len(last.pre) = 2
    /\ last.ret[1].fallbacks = <<"brand==">>

\* the tokens for which the all-words stage decides: three or more, or two when
\* the strict stage does not apply or selects nothing
AndApplies(p) == Len(p) >= 3 \/ (Len(p) = 2 /\ (~StrictApplies(p) \/ StrictRows(p) = {}))

\* the records with every token somewhere in normalized brand + " " + normalized model
AndRows(p) ==
    {r \in 1..Len(Cars) :
        \A i \in 1..Len(p) :
            Contains(normalize_text(Cars[r].brand) \o <<32>> \o normalize_text(Cars[r].model), p[i])}

\* C20: for three or more tokens, and for two tokens when the strict stage does
\* not apply or is empty, the matches the strategy returns (before any year
\* filter) are exactly the records in which every token is a substring of
\* normalized brand + " " + normalized model, each once.
C20_SubstringAnd ==
    (last.op = "run_strategy" /\ AndApplies(last.key)) =>
        /\ RowsIn(last.ret[1].matches) = AndRows(last.key)
        /\ Len(last.ret[1].matches) = Cardinality(AndRows(last.key))
        /\ last.ret[1].ran = <<IF Len(last.key) = 2 THEN "brand_model" ELSE "multiple_words">>

\* ["lada", "2114"]: the strict stage applied and was empty, and the all-words
\* stage gave the one record with both tokens; a record with "lada" alone exists
C20_Witness ==
    /\ last.op = "run_strategy"
    /\ last.key = << <<108, 97, 100, 97>>, Q_2114 >>
    /\ StrictApplies(last.key) /\ StrictRows(last.key) = {}
    /\ Len(last.ret[1].matches) = 1
    /\ last.ret[1].fallbacks = <<"all words in brand+model">>

\* what separates the sub-tokens of a model field
IsModelSep(c) == c \in {47, 44} \/ IsSpaceCh(c)

\* tok is a whole sub-token of s: it stands between separators or the ends
SubTokenOf(s, tok) ==
    \E i \in 1..Len(s), j \in 1..Len(s) :
        /\ SubSeq(s, i, j) = tok
        /\ (i = 1 \/ IsModelSep(s[i - 1]))
        /\ (j = Len(s) \/ IsModelSep(s[j + 1]))

\* C21: a record is selected for a numeric token exactly when its model field,
\* with the bracketed annotations removed, has the token as a whole sub-token
\* between '/', ',', whitespace or the ends; digits inside a longer sub-token do
\* not count.
C21_WholeSubToken ==
    last.op = "vaz_match" =>
        last.ret = <<SubTokenOf(StripBrackets(last.key), last.arg[1])>>

\* "2108/2109/2114" has the sub-token "2114"
C21_Witness ==
    /\ last.op = "vaz_match"
    /\ last.key = Cars[1].model /\ last.arg = <<Q_2114>>
    /\ last.ret = <<TRUE>>

\* the records whose raw model field contains the word
ModelSubstringRows(word) == {r \in 1..Len(Cars) : Contains(Cars[r].model, word)}

\* C22: when a search computes its result for a single all-digit token of
\* length 3 or 4 and the numeric strategy's matches (year-filtered when the query
\* had a year) are empty, the similar set of the result is exactly the set of
\* records whose raw model field contains the token as a substring.
C22_NumericSimilar ==
    (SearchComputed /\ IsNumericModel(last.parts_syn) /\ last.pre = <<>>) =>
        RowsIn(last.ret[1].similar) = ModelSubstringRows(last.parts_syn[1])

\* "211 2015": two model fields contain "211", the numeric strategy logged two
\* similar records and its tag was recorded, and the result's similar set is empty
C22_Witness ==
    /\ SearchComputed /\ last.key = Q_211_2015
    /\ IsNumericModel(last.parts_syn) /\ last.pre = <<>>
    /\ Cardinality(ModelSubstringRows(last.parts_syn[1])) = 2
    /\ \E i \in 1..Len(last.ret[1].log) : last.ret[1].log[i] = LogEntry("vaz similar", 2, 0)
    /\ last.ret[1].fallbacks = <<"vaz model+year">>
    /\ last.ret[1].similar = <<>>

-----------------------------------------------------------------------------
(* Calls of the cache that end in an error                                 *)

-----------------------------------------------------------------------------
(* Properties of two requests with the same text                           *)

\* both requests were served, asked the same text and both missed the cache
BothMissed ==
    /\ Done = Requests
    /\ seen["a"].key = seen["b"].key
    /\ seen["a"].missed /\ seen["b"].missed

\* the request that was served second
Later == CHOOSE r \in Requests : seen[r].n = 2

\* C27 as stated: when two requests with the same text both miss the cache, both
\* store the same value, and the entry of the text is the result either returned.
C27_SameValue ==
    BothMissed =>
        /\ seen["a"].ret = seen["b"].ret
        /\ cache[seen["a"].key].val = seen["a"].ret

\* C27: when two requests with the same text both miss the cache, each returns
\* and stores the result computed from its own snapshot, so equal snapshots give
\* equal values, and the entry of the text is the result of the request that
\* was served second.
C27_OwnSnapshot ==
    BothMissed =>
        /\ \A r \in Requests : seen[r].ret = Compute(seen[r].key, rsnap[r]).result
        /\ rsnap["a"] = rsnap["b"] => seen["a"].ret = seen["b"].ret
        /\ cache[seen[Later].key].val = seen[Later].ret

\* "toyotta" twice, with the table that maps it to toyota published in between
\* and the first entry expired: the first request found nothing, the second the
\* Toyota rows, and the cache holds the second result
C27_Witness ==
    /\ BothMissed
    /\ seen["a"].key = Q_toyotta
    /\ seen["a"].n = 1
    /\ rsnap["a"] = EmptyDict
    /\ rsnap["b"] = BuildTable(RowsB)
    /\ seen["a"].ret.matches = <<>>
    /\ seen["b"].ret.matches # <<>>
    /\ cache[Q_toyotta].val = seen["b"].ret

\* the result the last call of search returned
Returned == last.ret[1]

\* C29: in every result search computes, a non-empty similar set comes with an
\* empty match set.
C29_Exclusive ==
    (last.op = "compute" /\ Returned.similar # <<>>) => Returned.matches = <<>>

\* "2114 2015": the record 2108/2109/2114 (2001-2013) is dropped by the year
\* filter of the numeric strategy, and the similar set holds it
C29_Witness ==
    /\ last.op = "compute"
    /\ last.key = Q_2114_2015
    /\ Returned.fallbacks = <<"vaz model+year">>
    /\ Returned.matches = <<>>
    /\ 1 \in RowsIn(Returned.similar)

\* the rows of stage (ii), model equal to or containing the word, and of stage
\* (iv), the word among the words of the model
ModelContainsRows(word) == {r \in RowsIn(df) : Contains(model_lower[r], word)}
ModelWordRows(word) == {r \in RowsIn(df) : InList(word, Split(model_lower[r]))}

\* C30: the single-word strategy returns with one of the tags "brand==", "model
\* contains all", "brand contains (fallback)" and "", never with "model word" or
\* "model contains (fallback)": the rows of stage (iv) are among those of stage
\* (ii), and stage (v) selects the rows of stage (ii) again.
C30_DeadStages ==
    last.op = "single_word" =>
        /\ last.ret[1].fallback \in {"brand==", "model contains all", "brand contains (fallback)", ""}
        /\ ModelWordRows(last.key) \subseteq ModelContainsRows(last.key)
        /\ last.ret[1].fallback \in {"brand contains (fallback)", ""} =>
               ModelContainsRows(last.key) = {} /\ ModelWordRows(last.key) = {}

\* "toyotta": no brand and no model equals or contains it, so every stage was
\* tried and the strategy returned nothing
C30_Witness ==
    /\ last.op = "single_word"
    /\ last.key = Q_toyotta
    /\ last.ret[1] = [matches |-> EmptyFrame, fallback |-> ""]

-----------------------------------------------------------------------------
(* Further properties of the cache                                         *)

\* C16: a call of clear_expired removes every entry whose age now - ts is at
\* least TTL, keeps every entry of a smaller age with its value and timestamp,
\* adds nothing, and returns the number of entries it removed.
C16_ExactSweep ==
    [][last'.op = "clear_expired" =>
        /\ \A k \in DOMAIN cache :
              IF now - cache[k].ts >= TTL
                  THEN k \notin DOMAIN cache'
                  ELSE k \in DOMAIN cache' /\ cache'[k] = cache[k]
        /\ DOMAIN cache' \subseteq DOMAIN cache
        /\ last'.n = Cardinality(DOMAIN cache \ DOMAIN cache')]_vars

\* a sweep removed the entry of "2114", stored exactly TTL ago, and kept the
\* younger entry of "toyot"
C16_Witness ==
    /\ last.op = "clear_expired" /\ last.n = 1
    /\ DOMAIN cache = {Q_toyot}
    /\ now - cache[Q_toyot].ts < TTL
    /\ fresh[Q_2114] # <<>>
    /\ now - fresh[Q_2114][1].t = TTL

\* a step that is a call of search() for q, o being q in another letter case:
\* the call is served from the cache exactly when q itself has a fresh entry,
\* otherwise it computes and stores under q, and the entry of o is left alone
C17_Call(q, o) ==
    /\ last'.hit <=> (q \in DOMAIN cache /\ now - cache[q].ts < TTL)
    /\ last'.hit => last'.ret = <<cache[q].val>>
    /\ ~last'.hit =>
           /\ last'.ran # <<>>
           /\ q \in DOMAIN cache'
           /\ cache'[q] = [ts |-> now', val |-> last'.ret[1]]
    /\ IF o \in DOMAIN cache
           THEN o \in DOMAIN cache' /\ cache'[o] = cache[o]
           ELSE o \notin DOMAIN cache'

\* C17: the cache key is the raw query string: of two queries that differ only
\* in letter case, a search for one is never served from the entry of the other;
\* each computes its own result and stores it under its own key.
C17_ExactKey ==
    [][\A q \in CaseQueries, o \in CaseQueries :
          (last'.op = "search" /\ last'.key = q /\ o # q /\ Lower(o) = Lower(q))
              => C17_Call(q, o)]_vars

\* "BMW X5 2015" was computed and stored while "bmw x5 2015" had a fresh entry
C17_Witness ==
    /\ last.op = "search" /\ last.key = Q_BMW_X5_2015 /\ ~last.hit
    /\ DOMAIN cache = CaseQueries
    /\ cache[Q_bmw_x5_2015].ts < now /\ now - cache[Q_bmw_x5_2015].ts < TTL
    /\ cache[Q_BMW_X5_2015].ts = now

\* C23: on a bare "MM.YY" or a bare "YYYY", year_in_range is true exactly for
\* the one encoded year, 2000 + YY for the two-digit form.
C23_BareYear ==
    last.op = "year_in_range" =>
        \A c \in BareCases :
            last.key = c.text => last.ret = <<(last.arg[1] = c.year)>>

\* "05.10" was asked about 2015, and the answer was yes
C23_Witness ==
    /\ last.op = "year_in_range"
    /\ last.key = MMYY(5, 10)
    /\ last.arg = <<2015>>
    /\ last.ret = <<TRUE>>

\* the strings a row names: its base and its aliases
RowNames(row) == {RowBase(row)} \cup RowsIn(RowSyns(row))

\* the last row of rows that names k
LastNaming(rows, k) ==
    CHOOSE j \in 1..Len(rows) :
        k \in RowNames(rows[j]) /\ \A i \in (j + 1)..Len(rows) : k \notin RowNames(rows[i])

-----------------------------------------------------------------------------
(* Properties of the start-up                                              *)

\* C14: a Database whose construction returned holds all three tables, and the
\* engine of the handlers is built over a loaded vehicle table: when the vehicle
\* sheet is unreadable or lacks a required column, or another sheet is
\* unreadable, construction fails instead.
C14_LoadFailureFatal ==
    boot.pc \in {"db", "handlers"} =>
        /\ db.cars_df # "None" /\ db.wipers_df # "None" /\ db.types_desc_df # "None"
        /\ boot.pc = "handlers" => boot.engine_df # "None"

\* the vehicle sheet lacked the column passanger, and the engine was built over None
C14_Witness ==
    /\ boot.pc = "handlers"
    /\ files.cars.readable /\ files.cars.columns = RequiredColumns \ {"passanger"}
    /\ db = NoneDb
    /\ boot.engine_df = "None"

====
